---- MODULE Spec2Model ----
(***************************************************************************)
(* A model of package gosln: the validated collections, the mutually       *)
(* exclusive property collections built on them (PropMutateArg and         *)
(* PropMatchClause), and the match evaluator.                              *)
(***************************************************************************)
EXTENDS Integers, Sequences, FiniteSets, TLC

VARIABLES
    fam,    \* the components of one PropMatchClause (equal, present, absent)
            \* or of one PropMutateArg (set, remove): component -> contents
    reg,    \* the field r of each component: the collections it removes from
    kind,   \* which constructor made the validated collection under study
    vs,     \* validSet.s
    vm,     \* validMap.m
    ids,    \* idSetImpl.m: type string -> set of suffixes
    rcv,    \* the clause or condition a Match call of the evaluator is made on
    arg,    \* the argument of that call (props, node or link)
    last    \* the last call made: what it was given and how it ended

vars == <<fam, reg, kind, vs, vm, ids, rcv, arg, last>>

\* ---------------------------------------------------------------- bounds
\* The longest variadic argument list (Add(x...), Remove(x...)).
MaxArgs == 2
\* The longest condition (list of clauses) handed to the evaluator.
MaxCondLen == 2

\* ---------------------------------------------------------------- values
\* The nil reference / nil interface.
NIL == "nil"

\* PropName{name}: the zero PropName has name "".
ValidPropNames == {"a", "b"}
PropNames == ValidPropNames \cup {""}

PropName_IsValid(pn) == pn # ""

\* Type{t}: the zero Type has t "".
ValidTypes == {"T1", "T2"}
Types == ValidTypes \cup {""}

Type_IsValid(t) == t # ""

\* PropType constants, and propTypes: the Go type of each PropType.
maxPropType == 21

propTypes ==
    << "bool", "int", "int8", "int16", "int32", "int64",
       "uint", "uint8", "uint16", "uint32", "uint64", "uintptr",
       "float32", "float64", "complex64", "complex128",
       "[]byte", "string", "time.Time", "gosln.Date" >>

\* A value of type any is its dynamic Go type and its contents. "nil" is the
\* nil interface, "MyInt" a user-defined type outside PropValue.
VInt1 == [type |-> "int", v |-> 1]
VInt2 == [type |-> "int", v |-> 2]
VBytes == [type |-> "[]byte", v |-> 1]
VNil == [type |-> "nil", v |-> 0]
VMyInt == [type |-> "MyInt", v |-> 1]

\* The values stored in the property maps of entities, and the values
\* callers hand to Set and SetMap (VNil is not a PropValue).
PropValues == {VInt1, VInt2, VBytes}
AnyValues == {VInt1, VBytes, VNil}

\* propTypeOfMap[reflect.TypeOf(v)]: 0 for a type that is not a key.
PropTypeOf(v) ==
    IF \E i \in 1..Len(propTypes) : propTypes[i] = v.type
    THEN CHOOSE i \in 1..Len(propTypes) : propTypes[i] = v.type
    ELSE 0

PropType_IsValid(i) == i > 0 /\ i < maxPropType

\* PropType values handed to a PropTypeMap: PTBool, PTDate, and the invalid
\* 0 and maxPropType.
PropTypeArgs == {0, 1, 20, maxPropType}

\* Go's == on two interface values: false when the dynamic types differ, a
\* run-time panic when they are the same uncomparable type ([]byte), the
\* comparison of the contents otherwise.
InterfaceEq(x, y) ==
    IF x.type # y.type THEN "false"
    ELSE IF x.type = "[]byte" THEN "panic"
    ELSE IF x.v = y.v THEN "true" ELSE "false"

\* ---------------------------------------------------------------- helpers
SeqRange(xs) == {xs[i] : i \in 1..Len(xs)}

SeqsUpTo(S, n) == UNION {[1..k -> S] : k \in 0..n}

Restrict(m, D) == [k \in D |-> m[k]]

EmptyMap == [k \in {} |-> VNil]

\* m with every pair of n set in it (GoMap.SetMap).
Overwrite(m, n) ==
    [k \in DOMAIN m \cup DOMAIN n |-> IF k \in DOMAIN n THEN n[k] ELSE m[k]]

\* The maps with at most n pairs, keys from K and values from V.
MapsUpTo(K, V, n) ==
    UNION {[D -> V] : D \in {D \in SUBSET K : Cardinality(D) <= n}}

SymDiff(A, B) == (A \ B) \cup (B \ A)

Bool(b) == IF b THEN "true" ELSE "false"

\* A set (set.Set) or a map (mapping.Map) handed to a call: ref is NIL for a
\* nil argument, "ext" for a collection of the caller's, and the name of a
\* component when the argument is that component of the same family; items
\* and m are its contents when the call starts.
SetArg(ref, items) == [ref |-> ref, items |-> items]
MapArg(ref, m) == [ref |-> ref, m |-> m]

\* The outcome of a call: panic is "" or the error it panicked with, c the
\* contents of the collection afterwards.
Outcome(p, contents) == [panic |-> p, c |-> contents]

\* ------------------------------------------------- validSet and validMap
\* The validation functions the constructors hand to newValidSet/newValidMap,
\* and the closures newValidMap makes for a nil valueValidateFn, which call
\* IsValid on the captured variable v, the zero value of the Value type.
Validate(fn, x) ==
    CASE fn = "PropName.IsValid" -> PropName_IsValid(x)
      [] fn = "Type.IsValid" -> Type_IsValid(x)
      [] fn = "PropTypeOf.IsValid" -> PropType_IsValid(PropTypeOf(x))
      [] fn = "PropType.IsValid" -> PropType_IsValid(x)
      [] fn = "zero PropType.IsValid" -> PropType_IsValid(0)
      [] fn = "zero PropName.IsValid" -> PropName_IsValid("")

NewPropNameSet ==
    [validateFn |-> "PropName.IsValid", errFn |-> "*InvalidPropNameError"]

NewTypeSet ==
    [validateFn |-> "Type.IsValid", errFn |-> "*InvalidTypeError"]

NewPropMap ==
    [keyValidateFn |-> "PropName.IsValid", keyErrFn |-> "*InvalidPropNameError",
     valueValidateFn |-> "PropTypeOf.IsValid",
     valueErrFn |-> "*InvalidPropValueError"]

NewPropTypeMap ==
    [keyValidateFn |-> "PropName.IsValid", keyErrFn |-> "*InvalidPropNameError",
     valueValidateFn |-> "PropType.IsValid",
     valueErrFn |-> "*InvalidPropTypeError"]

\* An Add that validates each item as it adds it: the items before the
\* first invalid one are in the set when it panics.
validSet_AddOneByOne(cfg, s, xs) ==
    IF \E i \in 1..Len(xs) : ~Validate(cfg.validateFn, xs[i])
    THEN Outcome(cfg.errFn,
                 s \cup {xs[i] : i \in {j \in 1..Len(xs) :
                            \A h \in 1..j : Validate(cfg.validateFn, xs[h])}})
    ELSE Outcome("", s \cup SeqRange(xs))

\* validSet.Add(x...): every item is validated, then all are added.
validSet_Add(cfg, s, xs) ==
    IF \E i \in 1..Len(xs) : ~Validate(cfg.validateFn, xs[i])
    THEN Outcome(cfg.errFn, s)
    ELSE Outcome("", s \cup SeqRange(xs))

validSet_Remove(s, xs) == s \ SeqRange(xs)

\* validSet.validateAllItemsInSet(t): the error it panics with, "" if none.
validateAllItemsInSet(cfg, t) ==
    IF \E x \in t : ~Validate(cfg.validateFn, x) THEN cfg.errFn ELSE ""

\* validSet.Union(t).
validSet_Union(cfg, s, t) ==
    IF t.ref = NIL \/ t.items = {} THEN Outcome("", s)
    ELSE IF validateAllItemsInSet(cfg, t.items) # ""
    THEN Outcome(validateAllItemsInSet(cfg, t.items), s)
    ELSE Outcome("", s \cup t.items)

validSet_Intersect(s, t) == IF t.ref = NIL THEN {} ELSE s \cap t.items

validSet_Subtract(s, t) == IF t.ref = NIL THEN s ELSE s \ t.items

validSet_DisjunctiveUnion(cfg, s, t) ==
    IF t.ref = NIL \/ t.items = {} THEN Outcome("", s)
    ELSE IF validateAllItemsInSet(cfg, t.items) # ""
    THEN Outcome(validateAllItemsInSet(cfg, t.items), s)
    ELSE Outcome("", SymDiff(s, t.items))

\* validSet.Filter(filter): keep is the set of items filter returns true for.
validSet_Filter(s, keep) == s \cap keep

\* A validateKeyAndValue that checks the key and not the value.
validateKeyOnly(cfg, k, v) ==
    IF ~Validate(cfg.keyValidateFn, k) THEN cfg.keyErrFn ELSE ""

\* A validateKeyAndValue that looks at the value first.
validateValueAndKey(cfg, k, v) ==
    IF ~Validate(cfg.valueValidateFn, v) THEN cfg.valueErrFn
    ELSE IF ~Validate(cfg.keyValidateFn, k) THEN cfg.keyErrFn
    ELSE ""

\* validMap.validateKeyAndValue(key, value): the key is checked first.
validateKeyAndValue(cfg, k, v) ==
    IF ~Validate(cfg.keyValidateFn, k) THEN cfg.keyErrFn
    ELSE IF ~Validate(cfg.valueValidateFn, v) THEN cfg.valueErrFn
    ELSE ""

\* validMap.Set(key, value) and validMap.GetAndSet(key, value).
validMap_Set(cfg, m, k, v) ==
    IF validateKeyAndValue(cfg, k, v) # ""
    THEN Outcome(validateKeyAndValue(cfg, k, v), m)
    ELSE Outcome("", Overwrite(m, [x \in {k} |-> v]))

\* validMap.validateAllKeysAndValuesInMap(n): Range visits the pairs of n in
\* an unspecified order and panics at the first invalid one, so any invalid
\* pair can be the one reported.
validateAllKeysAndValuesInMap(cfg, n) ==
    {validateKeyAndValue(cfg, k, n[k]) : k \in DOMAIN n} \ {""}

\* validMap.SetMap(n) and validMap.GetAndSetMap(n): the possible outcomes.
validMap_SetMap(cfg, m, n) ==
    IF n.ref = NIL \/ DOMAIN n.m = {} THEN {Outcome("", m)}
    ELSE IF validateAllKeysAndValuesInMap(cfg, n.m) # {}
    THEN {Outcome(e, m) : e \in validateAllKeysAndValuesInMap(cfg, n.m)}
    ELSE {Outcome("", Overwrite(m, n.m))}

validMap_Remove(m, ks) == Restrict(m, DOMAIN m \ SeqRange(ks))

\* validMap.Filter(filter): keep is the set of keys whose pair filter keeps.
validMap_Filter(m, keep) == Restrict(m, DOMAIN m \cap keep)

\* ------------------------------- mutExclPropMap and mutExclPropNameSet
\* A family is the components of one PropMatchClause or one PropMutateArg:
\* f[c] is the contents of component c, a map for a mutExclPropMap and a set
\* for a mutExclPropNameSet.
MapMembers == {"equal", "set"}

\* NewPropMatchClause: the three components, empty, each registered with
\* the other two.
NewPropMatchClause ==
    [fam |-> [equal |-> EmptyMap, present |-> {}, absent |-> {}],
     reg |-> [equal |-> <<"present", "absent">>,
              present |-> <<"equal", "absent">>,
              absent |-> <<"equal", "present">>]]

\* NewPropMutateArg: the two components, empty, each registered with the
\* other.
NewPropMutateArg ==
    [fam |-> [set |-> EmptyMap, remove |-> {}],
     reg |-> [set |-> <<"remove">>, remove |-> <<"set">>]]

\* A Remove that empties the collection instead of removing the given keys.
Coll_RemoveAll(f, c, xs) ==
    [f EXCEPT ![c] = IF c \in MapMembers THEN EmptyMap ELSE {}]

\* mutExclPropMap.Remove(key...) and mutExclPropNameSet.Remove(x...) called
\* on component c.
Coll_Remove(f, c, xs) ==
    [f EXCEPT ![c] = IF c \in MapMembers THEN validMap_Remove(@, xs)
                                         ELSE validSet_Remove(@, xs)]

RECURSIVE removeFrom(_, _, _)
removeFrom(f, rs, xs) ==
    IF rs = <<>> THEN f
    ELSE removeFrom(Coll_Remove(f, Head(rs), xs), Tail(rs), xs)

\* A removeFromOthers that stops after the first registered collection.
removeFromFirst(f, r, xs) ==
    IF Len(xs) > 0 /\ Len(r) > 0 THEN Coll_Remove(f, Head(r), xs) ELSE f

\* removeFromOthers(name...): r is the field r of the calling component.
removeFromOthers(f, r, xs) ==
    IF Len(xs) > 0 THEN removeFrom(f, r, xs) ELSE f

\* The keys the argument a holds now: those of the component when a is one.
ArgKeys(f, a) ==
    IF a.ref \in MapMembers THEN DOMAIN f[a.ref]
    ELSE IF a.ref \in DOMAIN f THEN f[a.ref]
    ELSE IF "m" \in DOMAIN a THEN DOMAIN a.m
    ELSE a.items

\* The loop that follows a bulk insertion into component who:
\*     s.Range(func(x) { removeFromOthers(x); return true })
\* and, when guarded, removeFromOthers(x) only if who contains x. Range
\* visits the keys the argument holds in an unspecified order, and a key
\* removed from the argument before it is reached is not visited. The
\* families the loop can end in.
RECURSIVE RangeRemove(_, _, _, _, _, _)
RangeRemove(f, r, who, a, guarded, seen) ==
    IF ArgKeys(f, a) \ seen = {} THEN {f}
    ELSE UNION {
        RangeRemove(IF guarded /\ x \notin f[who] THEN f
                    ELSE removeFromOthers(f, r, <<x>>),
                    r, who, a, guarded, seen \cup {x})
        : x \in ArgKeys(f, a) \ seen }

\* mutExclPropNameSet.Add(x...) on component who: the possible outcomes.
mutExclPropNameSet_Add(f, r, who, xs) ==
    LET o == validSet_Add(NewPropNameSet, f[who], xs)
    IN  IF o.panic # "" THEN {Outcome(o.panic, f)}
        ELSE {Outcome("", removeFromOthers([f EXCEPT ![who] = o.c], r, xs))}

mutExclPropNameSet_Remove(f, who, xs) ==
    [f EXCEPT ![who] = validSet_Remove(@, xs)]

mutExclPropNameSet_Union(f, r, who, a) ==
    IF a.ref = NIL \/ a.items = {} THEN {Outcome("", f)}
    ELSE LET o == validSet_Union(NewPropNameSet, f[who], a)
         IN  IF o.panic # "" THEN {Outcome(o.panic, f)}
             ELSE {Outcome("", g) :
                   g \in RangeRemove([f EXCEPT ![who] = o.c],
                                     r, who, a, FALSE, {})}

mutExclPropNameSet_Intersect(f, who, a) ==
    [f EXCEPT ![who] = validSet_Intersect(@, a)]

mutExclPropNameSet_Subtract(f, who, a) ==
    [f EXCEPT ![who] = validSet_Subtract(@, a)]

mutExclPropNameSet_DisjunctiveUnion(f, r, who, a) ==
    IF a.ref = NIL \/ a.items = {} THEN {Outcome("", f)}
    ELSE LET o == validSet_DisjunctiveUnion(NewPropNameSet, f[who], a)
         IN  IF o.panic # "" THEN {Outcome(o.panic, f)}
             ELSE {Outcome("", g) :
                   g \in RangeRemove([f EXCEPT ![who] = o.c],
                                     r, who, a, TRUE, {})}

mutExclPropNameSet_Filter(f, who, keep) ==
    [f EXCEPT ![who] = validSet_Filter(@, keep)]

\* A Clear that empties every set of the family.
mutExclPropNameSet_ClearAll(f, who) ==
    [c \in DOMAIN f |-> IF c \in MapMembers THEN f[c] ELSE {}]

mutExclPropNameSet_Clear(f, who) == [f EXCEPT ![who] = {}]

\* mutExclPropMap.Set(key, value) and GetAndSet(key, value) on component who.
mutExclPropMap_Set(f, r, who, k, v) ==
    LET o == validMap_Set(NewPropMap, f[who], k, v)
    IN  IF o.panic # "" THEN {Outcome(o.panic, f)}
        ELSE {Outcome("", removeFromOthers([f EXCEPT ![who] = o.c], r, <<k>>))}

\* A SetMap that removes the names of m from the other collections even
\* when the validation of m panics.
mutExclPropMap_SetMapRemoveFirst(f, r, who, a) ==
    IF a.ref = NIL \/ DOMAIN a.m = {} THEN {Outcome("", f)}
    ELSE UNION {
        IF o.panic # ""
        THEN {Outcome(o.panic, g) :
              g \in RangeRemove(f, r, who, a, FALSE, {})}
        ELSE {Outcome("", g) :
              g \in RangeRemove([f EXCEPT ![who] = o.c], r, who, a, FALSE, {})}
        : o \in validMap_SetMap(NewPropMap, f[who], a) }

\* mutExclPropMap.SetMap(m) and GetAndSetMap(m) on component who.
mutExclPropMap_SetMap(f, r, who, a) ==
    IF a.ref = NIL \/ DOMAIN a.m = {} THEN {Outcome("", f)}
    ELSE UNION {
        IF o.panic # "" THEN {Outcome(o.panic, f)}
        ELSE {Outcome("", g) :
              g \in RangeRemove([f EXCEPT ![who] = o.c], r, who, a, FALSE, {})}
        : o \in validMap_SetMap(NewPropMap, f[who], a) }

\* mutExclPropMap.Remove(key...) and GetAndRemove(key).
mutExclPropMap_Remove(f, who, ks) ==
    [f EXCEPT ![who] = validMap_Remove(@, ks)]

mutExclPropMap_Filter(f, who, keep) ==
    [f EXCEPT ![who] = validMap_Filter(@, keep)]

mutExclPropMap_Clear(f, who) == [f EXCEPT ![who] = EmptyMap]

\* An EqualRange whose handler does not compare the values:
\*     _, ok = props.Get(x.Key); return ok
RECURSIVE EqualRangeKeyOnly(_, _, _, _)
EqualRangeKeyOnly(equal, props, todo, ok) ==
    IF todo = {} THEN {ok}
    ELSE UNION {
        IF k \notin DOMAIN props THEN {"false"}
        ELSE EqualRangeKeyOnly(equal, props, todo \ {k}, "true")
        : k \in todo }

\* ------------------------------------------- propMatchClauseImpl.Match
\* pmc.equal.Range(func(x) { value, ok = props.Get(x.Key)
\*                           ok = ok && value == x.Value; return ok })
\* run over the pairs todo still to visit, ok being the captured variable:
\* the values ok can have when Range returns, or "panic".
RECURSIVE EqualRange(_, _, _, _)
EqualRange(equal, props, todo, ok) ==
    IF todo = {} THEN {ok}
    ELSE UNION {
        IF k \notin DOMAIN props THEN {"false"}
        ELSE IF InterfaceEq(props[k], equal[k]) = "true"
        THEN EqualRange(equal, props, todo \ {k}, "true")
        ELSE {InterfaceEq(props[k], equal[k])}
        : k \in todo }

\* pmc.present.Range(func(x) { _, ok = props.Get(x); return ok })
RECURSIVE PresentRange(_, _, _)
PresentRange(props, todo, ok) ==
    IF todo = {} THEN {ok}
    ELSE UNION {
        IF k \in DOMAIN props THEN PresentRange(props, todo \ {k}, "true")
        ELSE {"false"}
        : k \in todo }

\* pmc.absent.Range(func(x) { _, ok = props.Get(x); return !ok })
RECURSIVE AbsentRange(_, _, _)
AbsentRange(props, todo, ok) ==
    IF todo = {} THEN {ok}
    ELSE UNION {
        IF k \in DOMAIN props THEN {"true"}
        ELSE AbsentRange(props, todo \ {k}, "false")
        : k \in todo }

Not(ok) == IF ok = "true" THEN "false" ELSE "true"

\* propMatchClauseImpl.Match(props) on the clause with components pmc: what
\* the call can return, "panic" when it panics. ok starts false (var ok bool)
\* and is left alone by a Range over an empty collection.
PropMatchClause_Match(pmc, props) ==
    IF props.ref = NIL
    THEN {Bool(Cardinality(DOMAIN pmc.equal) = 0
               /\ Cardinality(pmc.present) = 0)}
    ELSE UNION {
        IF ok1 # "true" THEN {ok1}
        ELSE UNION {
            IF ok2 # "true" THEN {"false"}
            ELSE {Not(ok3) : ok3 \in AbsentRange(props.m, pmc.absent, ok2)}
            : ok2 \in PresentRange(props.m, pmc.present, ok1) }
        : ok1 \in EqualRange(pmc.equal, props.m, DOMAIN pmc.equal, "false") }

\* ------------------------------------------------ the calls on a family
\* The record of a call: the method, the component or collection it was
\* called on, its argument (for a variadic argument, the set of its items),
\* the contents before it, the error it panicked with ("" if it returned)
\* and what it returned.
Call(op, who, a, pre, panic, res) ==
    [op |-> op, who |-> who, a |-> a, pre |-> pre, panic |-> panic, res |-> res]

NoCall == Call("", "", <<>>, <<>>, "", "")

SetMembers(f) == DOMAIN f \ MapMembers

\* The sets a caller can hand to a component: nil, a set of its own (which
\* may hold the zero PropName), or a set component of the same family.
SetArgs(f) ==
    {SetArg(NIL, {})}
    \cup {SetArg("ext", S) : S \in SUBSET PropNames}
    \cup {SetArg(c, f[c]) : c \in SetMembers(f)}

\* The maps a caller can hand to a component.
MapArgs(f) ==
    {MapArg(NIL, EmptyMap)}
    \cup {MapArg("ext", m) :
          m \in MapsUpTo(PropNames, AnyValues, Cardinality(ValidPropNames))}
    \cup {MapArg(c, f[c]) : c \in DOMAIN f \cap MapMembers}

\* The contents a PropMap made by NewPropMap can have, handed to Match.
PropMaps == UNION {[D -> PropValues] : D \in SUBSET ValidPropNames}

PropsArgs == {MapArg(NIL, EmptyMap)} \cup {MapArg("ext", m) : m \in PropMaps}

FamStep(f, call) ==
    /\ fam' = f
    /\ last' = call
    /\ UNCHANGED <<reg, kind, vs, vm, ids, rcv, arg>>

NameSet_Add ==
    \E who \in SetMembers(fam), xs \in SeqsUpTo(PropNames, MaxArgs) :
        \E o \in mutExclPropNameSet_Add(fam, reg[who], who, xs) :
            FamStep(o.c, Call("Add", who, SeqRange(xs), fam, o.panic, ""))

NameSet_Remove ==
    \E who \in SetMembers(fam), xs \in SeqsUpTo(PropNames, MaxArgs) :
        FamStep(mutExclPropNameSet_Remove(fam, who, xs),
                Call("Remove", who, SeqRange(xs), fam, "", ""))

NameSet_Union ==
    \E who \in SetMembers(fam), a \in SetArgs(fam) :
        \E o \in mutExclPropNameSet_Union(fam, reg[who], who, a) :
            FamStep(o.c, Call("Union", who, a, fam, o.panic, ""))

NameSet_Intersect ==
    \E who \in SetMembers(fam), a \in SetArgs(fam) :
        FamStep(mutExclPropNameSet_Intersect(fam, who, a),
                Call("Intersect", who, a, fam, "", ""))

NameSet_Subtract ==
    \E who \in SetMembers(fam), a \in SetArgs(fam) :
        FamStep(mutExclPropNameSet_Subtract(fam, who, a),
                Call("Subtract", who, a, fam, "", ""))

NameSet_DisjunctiveUnion ==
    \E who \in SetMembers(fam), a \in SetArgs(fam) :
        \E o \in mutExclPropNameSet_DisjunctiveUnion(fam, reg[who], who, a) :
            FamStep(o.c, Call("DisjunctiveUnion", who, a, fam, o.panic, ""))

NameSet_Filter ==
    \E who \in SetMembers(fam), keep \in SUBSET ValidPropNames :
        FamStep(mutExclPropNameSet_Filter(fam, who, keep),
                Call("Filter", who, keep, fam, "", ""))

NameSet_Clear ==
    \E who \in SetMembers(fam) :
        FamStep(mutExclPropNameSet_Clear(fam, who),
                Call("Clear", who, <<>>, fam, "", ""))

Map_Set ==
    \E who \in DOMAIN fam \cap MapMembers, k \in PropNames, v \in AnyValues :
        \E o \in mutExclPropMap_Set(fam, reg[who], who, k, v) :
            FamStep(o.c, Call("Set", who, <<k, v>>, fam, o.panic, ""))

\* GetAndSet returns the previous value, "" when there was none.
Map_GetAndSet ==
    \E who \in DOMAIN fam \cap MapMembers, k \in PropNames, v \in AnyValues :
        \E o \in mutExclPropMap_Set(fam, reg[who], who, k, v) :
            FamStep(o.c, Call("GetAndSet", who, <<k, v>>, fam, o.panic,
                              IF o.panic = "" /\ k \in DOMAIN fam[who]
                              THEN fam[who][k].type ELSE ""))

Map_SetMap ==
    \E who \in DOMAIN fam \cap MapMembers, a \in MapArgs(fam) :
        \E o \in mutExclPropMap_SetMap(fam, reg[who], who, a) :
            FamStep(o.c, Call("SetMap", who, a, fam, o.panic, ""))

\* GetAndSetMap returns the pairs it replaced; res is their keys.
Map_GetAndSetMap ==
    \E who \in DOMAIN fam \cap MapMembers, a \in MapArgs(fam) :
        \E o \in mutExclPropMap_SetMap(fam, reg[who], who, a) :
            FamStep(o.c, Call("GetAndSetMap", who, a, fam, o.panic,
                              IF o.panic = "" /\ a.ref # NIL
                              THEN DOMAIN fam[who] \cap DOMAIN a.m ELSE {}))

Map_Remove ==
    \E who \in DOMAIN fam \cap MapMembers, ks \in SeqsUpTo(PropNames, MaxArgs) :
        FamStep(mutExclPropMap_Remove(fam, who, ks),
                Call("Remove", who, SeqRange(ks), fam, "", ""))

Map_GetAndRemove ==
    \E who \in DOMAIN fam \cap MapMembers, k \in PropNames :
        FamStep(mutExclPropMap_Remove(fam, who, <<k>>),
                Call("GetAndRemove", who, {k}, fam, "",
                     IF k \in DOMAIN fam[who] THEN fam[who][k].type ELSE ""))

Map_Filter ==
    \E who \in DOMAIN fam \cap MapMembers, keep \in SUBSET ValidPropNames :
        FamStep(mutExclPropMap_Filter(fam, who, keep),
                Call("Filter", who, keep, fam, "", ""))

Map_Clear ==
    \E who \in DOMAIN fam \cap MapMembers :
        FamStep(mutExclPropMap_Clear(fam, who),
                Call("Clear", who, <<>>, fam, "", ""))

\* PropMatchClause.Match(props) on the clause under construction.
Clause_Match ==
    \E props \in PropsArgs :
        \E res \in PropMatchClause_Match(fam, props) :
            FamStep(fam, Call("Match", "", props, fam,
                              IF res = "panic" THEN "runtime error" ELSE "",
                              res))

FamNext ==
    \/ NameSet_Add \/ NameSet_Remove \/ NameSet_Union \/ NameSet_Intersect
    \/ NameSet_Subtract \/ NameSet_DisjunctiveUnion \/ NameSet_Filter
    \/ NameSet_Clear
    \/ Map_Set \/ Map_GetAndSet \/ Map_SetMap \/ Map_GetAndSetMap
    \/ Map_Remove \/ Map_GetAndRemove \/ Map_Filter \/ Map_Clear

IdleValid == kind = "" /\ vs = {} /\ vm = EmptyMap /\ ids = EmptyMap

\* A nil pointer, nil interface or nil slice.
NilRef == [ref |-> NIL]

IsNil(p) == p.ref = NIL

IdleEval == rcv = [kind |-> "", v |-> NilRef] /\ arg = NilRef

\* One PropMatchClause, from NewPropMatchClause on.
InitPMC ==
    /\ fam = NewPropMatchClause.fam
    /\ reg = NewPropMatchClause.reg
    /\ IdleValid /\ IdleEval
    /\ last = NoCall

NextPMC == FamNext \/ Clause_Match

SpecPMC == InitPMC /\ [][NextPMC]_vars

\* One PropMutateArg, from NewPropMutateArg on.
InitPMA ==
    /\ fam = NewPropMutateArg.fam
    /\ reg = NewPropMutateArg.reg
    /\ IdleValid /\ IdleEval
    /\ last = NoCall

NextPMA == FamNext

SpecPMA == InitPMA /\ [][NextPMA]_vars

\* ------------------------------------------- claims about the families
\* The property names component c of family f holds.
Keys(f, c) == IF c \in MapMembers THEN DOMAIN f[c] ELSE f[c]

\* C1: whatever calls were made on Equal, Present and Absent of a clause
\* made by NewPropMatchClause (a sibling or the component itself as the
\* argument included), no property name is in two of them.
C1_MutuallyExclusive ==
    \A c1 \in DOMAIN fam, c2 \in DOMAIN fam :
        c1 # c2 => Keys(fam, c1) \cap Keys(fam, c2) = {}

\* A bulk insertion whose argument was a non-empty sibling set has returned,
\* and the names it held are now in the component called.
C1_Witness ==
    /\ last.op \in {"Union", "DisjunctiveUnion"}
    /\ last.panic = ""
    /\ last.a.ref \in SetMembers(fam) \ {last.who}
    /\ last.a.items # {}
    /\ last.a.items \subseteq fam[last.who]
    /\ DOMAIN fam.equal # {}

\* The names other than those of N keep their membership and value in
\* every component of the family.
OthersUnchanged(f, pre, N) ==
    \A c \in DOMAIN f, x \in PropNames \ N :
        /\ x \in Keys(f, c) <=> x \in Keys(pre, c)
        /\ (c \in MapMembers /\ x \in Keys(f, c)) => f[c][x] = pre[c][x]

\* C2: in a PropMutateArg, ToBeSet().Set(n, v) that returns leaves n in
\* ToBeSet with value v and not in ToBeRemoved, ToBeRemoved().Add(n...) that
\* returns leaves each n in ToBeRemoved and not in ToBeSet, and every other
\* name is where it was, with the value it had.
C2_InsertionFrame ==
    /\ (last.op = "Set" /\ last.panic = "") =>
          /\ last.a[1] \in DOMAIN fam.set
          /\ fam.set[last.a[1]] = last.a[2]
          /\ last.a[1] \notin fam.remove
          /\ OthersUnchanged(fam, last.pre, {last.a[1]})
    /\ (last.op = "Add" /\ last.panic = "") =>
          /\ last.a \subseteq fam.remove
          /\ last.a \cap DOMAIN fam.set = {}
          /\ OthersUnchanged(fam, last.pre, last.a)

\* Set(n, v) has returned for a name that was to be removed, while another
\* name was to be removed too.
C2_Witness ==
    /\ last.op = "Set"
    /\ last.panic = ""
    /\ last.a[1] \in last.pre.remove
    /\ last.pre.remove \ {last.a[1]} # {}

\* What the documentation of PropMatchClause asks of props for a match.
Satisfies(pmc, props) ==
    /\ \A k \in DOMAIN pmc.equal : k \in DOMAIN props /\ props[k] = pmc.equal[k]
    /\ \A k \in pmc.present : k \in DOMAIN props
    /\ \A k \in pmc.absent : k \notin DOMAIN props

\* C5: for a non-nil props, Match(props) returns true exactly when props
\* has every pair of Equal, every name of Present and no name of Absent.
C5_MatchIffSatisfies ==
    (last.op = "Match" /\ last.a.ref # NIL) =>
        (last.res = "true" <=> Satisfies(fam, last.a.m))

\* C6: for a nil props and for an empty props alike, Match(props) returns
\* true exactly when Equal and Present are both empty.
C6_MatchEmptyProps ==
    (last.op = "Match" /\ DOMAIN last.a.m = {}) =>
        (last.res = "true" <=> (DOMAIN fam.equal = {} /\ fam.present = {}))

\* C7: Match returns; it never panics.
C7_MatchNeverPanics ==
    last.op = "Match" => last.res # "panic"

\* -------------------------------------------------------------- idSetImpl
\* ID{t, s}: the zero ID has t "". The suffixes are those NewID gives the
\* serial numbers 0 and 1 on one date.
ZeroID == [t |-> "", s |-> ""]

IDArgs ==
    {ZeroID, [t |-> "T1", s |-> "d-0"], [t |-> "T1", s |-> "d-1"],
     [t |-> "T2", s |-> "d-0"]}

ID_IsValid(id) == id.t # ""

\* The IDs in the set with map m: what idSetImpl.Range visits.
IDSet_Items(m) == UNION {{[t |-> t, s |-> x] : x \in m[t]} : t \in DOMAIN m}

\* sub := ids.m[x.t]; if sub == nil { sub = make(...); ids.m[x.t] = sub }
\* sub[x.s] = struct{}{}
IDSet_put(m, x) ==
    Overwrite(m, [t \in {x.t} |->
                    (IF x.t \in DOMAIN m THEN m[x.t] ELSE {}) \cup {x.s}])

\* A delete that leaves the type in ids.m when its last ID has gone.
IDSet_deleteKeepType(m, x) ==
    IF x.t \notin DOMAIN m THEN m ELSE [m EXCEPT ![x.t] = @ \ {x.s}]

\* sub := ids.m[x.t]; if sub != nil { delete(sub, x.s)
\* if len(sub) == 0 { delete(ids.m, x.t) } }
IDSet_delete(m, x) ==
    IF x.t \notin DOMAIN m THEN m
    ELSE IF m[x.t] \ {x.s} = {} THEN Restrict(m, DOMAIN m \ {x.t})
    ELSE [m EXCEPT ![x.t] = @ \ {x.s}]

\* The body of the handler of DisjunctiveUnion: x is deleted when the set
\* has it and put otherwise.
IDSet_toggle(m, x) ==
    IF x.t \in DOMAIN m /\ x.s \in m[x.t] THEN IDSet_delete(m, x)
    ELSE IDSet_put(m, x)

IDSet_step(m, x, how) ==
    CASE how = "put" -> IDSet_put(m, x)
      [] how = "delete" -> IDSet_delete(m, x)
      [] how = "toggle" -> IDSet_toggle(m, x)

\* A loop "for _, x := range id" over the variadic argument xs.
RECURSIVE IDSet_forEach(_, _, _)
IDSet_forEach(m, xs, how) ==
    IF xs = <<>> THEN m
    ELSE IDSet_forEach(IDSet_step(m, Head(xs), how), Tail(xs), how)

\* A Range over the IDs of S, visited in an unspecified order: the maps the
\* loop can end with.
RECURSIVE IDSet_range(_, _, _)
IDSet_range(m, S, how) ==
    IF S = {} THEN {m}
    ELSE UNION {IDSet_range(IDSet_step(m, x, how), S \ {x}, how) : x \in S}

\* validateAllIDsInSet(s): the error it panics with, "" if none.
validateAllIDsInSet(S) ==
    IF \E x \in S : ~ID_IsValid(x) THEN "*InvalidIDError" ELSE ""

idSetImpl_Add(m, xs) ==
    IF \E i \in 1..Len(xs) : ~ID_IsValid(xs[i])
    THEN {Outcome("*InvalidIDError", m)}
    ELSE {Outcome("", IDSet_forEach(m, xs, "put"))}

idSetImpl_Remove(m, xs) == IDSet_forEach(m, xs, "delete")

idSetImpl_Union(m, a) ==
    IF a.ref = NIL \/ a.items = {} THEN {Outcome("", m)}
    ELSE IF validateAllIDsInSet(a.items) # ""
    THEN {Outcome(validateAllIDsInSet(a.items), m)}
    ELSE {Outcome("", n) : n \in IDSet_range(m, a.items, "put")}

idSetImpl_Intersect(m, a) ==
    IF a.ref = NIL \/ a.items = {} THEN {EmptyMap}
    ELSE IDSet_range(m, IDSet_Items(m) \ a.items, "delete")

idSetImpl_Subtract(m, a) ==
    IF a.ref = NIL \/ a.items = {} THEN {m}
    ELSE IDSet_range(m, a.items, "delete")

idSetImpl_DisjunctiveUnion(m, a) ==
    IF a.ref = NIL \/ a.items = {} THEN {Outcome("", m)}
    ELSE IF validateAllIDsInSet(a.items) # ""
    THEN {Outcome(validateAllIDsInSet(a.items), m)}
    ELSE {Outcome("", n) : n \in IDSet_range(m, a.items, "toggle")}

\* idSetImpl.Filter(filter): keep is the set of IDs filter returns true for.
idSetImpl_Filter(m, keep) == IDSet_range(m, IDSet_Items(m) \ keep, "delete")

\* idSetImpl.ContainsItem(x).
idSetImpl_ContainsItem(m, x) == x.t \in DOMAIN m /\ x.s \in m[x.t]

\* s.Range(func(x ID) (cont bool) { ok = ids contains x; return ok }) of
\* ContainsSet (stop = FALSE) and c.Range(... return !ok) of ContainsAny
\* (stop = TRUE) over the IDs todo, visited in an unspecified order: the
\* values the captured variable ok can have when Range returns.
RECURSIVE IDSet_containsRange(_, _, _, _)
IDSet_containsRange(m, todo, ok, stop) ==
    IF todo = {} THEN {ok}
    ELSE UNION {
        IF idSetImpl_ContainsItem(m, x) = stop THEN {stop}
        ELSE IDSet_containsRange(m, todo \ {x}, idSetImpl_ContainsItem(m, x),
                                 stop)
        : x \in todo }

\* idSetImpl.ContainsSet(s): what it can return. len(ids.m) is the number
\* of types.
idSetImpl_ContainsSet(m, a) ==
    IF a.ref = NIL THEN {TRUE}
    ELSE IF Cardinality(a.items) = 0 THEN {TRUE}
    ELSE IF Cardinality(a.items) > Cardinality(DOMAIN m) THEN {FALSE}
    ELSE IDSet_containsRange(m, a.items, FALSE, FALSE)

\* idSetImpl.ContainsAny(c): what it can return.
idSetImpl_ContainsAny(m, a) ==
    IF a.ref = NIL \/ Cardinality(a.items) = 0 THEN {FALSE}
    ELSE IDSet_containsRange(m, a.items, FALSE, TRUE)

\* ------------------------------------- the calls on one validated collection
\* The collection a constructor has made: kind says which one. A TypeSet and
\* a PropNameSet keep their items in vs, a PropMap and a PropTypeMap their
\* pairs in vm, an IDSet its map from type to suffixes in ids. The sets and
\* maps of package gogo under them are taken to behave as sets and maps
\* whatever capacity they were made with.
SetKinds == {"TypeSet", "PropNameSet"}

MapKinds == {"PropMap", "PropTypeMap"}

ValidKinds == SetKinds \cup MapKinds \cup {"IDSet"}

SetCfg(k) == IF k = "TypeSet" THEN NewTypeSet ELSE NewPropNameSet

MapCfg(k) == IF k = "PropMap" THEN NewPropMap ELSE NewPropTypeMap

\* The items a caller can hand to a set, and the values to a map.
ItemArgs(k) == IF k = "TypeSet" THEN Types ELSE PropNames

ValueArgs(k) == IF k = "PropMap" THEN AnyValues ELSE PropTypeArgs

ExtSetArgs(S) == {SetArg(NIL, {})} \cup {SetArg("ext", T) : T \in SUBSET S}

ExtMapArgs(k) ==
    {MapArg(NIL, EmptyMap)}
    \cup {MapArg("ext", m) :
          m \in MapsUpTo(PropNames, ValueArgs(k), Cardinality(ValidPropNames))}

ValidStep(s, m, i, call) ==
    /\ vs' = s
    /\ vm' = m
    /\ ids' = i
    /\ last' = call
    /\ UNCHANGED <<fam, reg, kind, rcv, arg>>

VS_Add ==
    /\ kind \in SetKinds
    /\ \E xs \in SeqsUpTo(ItemArgs(kind), MaxArgs) :
        LET o == validSet_Add(SetCfg(kind), vs, xs)
        IN ValidStep(o.c, vm, ids,
                     Call("Add", kind, SeqRange(xs), vs, o.panic, ""))

VS_Remove ==
    /\ kind \in SetKinds
    /\ \E xs \in SeqsUpTo(ItemArgs(kind), MaxArgs) :
        ValidStep(validSet_Remove(vs, xs), vm, ids,
                  Call("Remove", kind, SeqRange(xs), vs, "", ""))

VS_Union ==
    /\ kind \in SetKinds
    /\ \E a \in ExtSetArgs(ItemArgs(kind)) :
        LET o == validSet_Union(SetCfg(kind), vs, a)
        IN ValidStep(o.c, vm, ids, Call("Union", kind, a, vs, o.panic, ""))

VS_Intersect ==
    /\ kind \in SetKinds
    /\ \E a \in ExtSetArgs(ItemArgs(kind)) :
        ValidStep(validSet_Intersect(vs, a), vm, ids,
                  Call("Intersect", kind, a, vs, "", ""))

VS_Subtract ==
    /\ kind \in SetKinds
    /\ \E a \in ExtSetArgs(ItemArgs(kind)) :
        ValidStep(validSet_Subtract(vs, a), vm, ids,
                  Call("Subtract", kind, a, vs, "", ""))

VS_DisjunctiveUnion ==
    /\ kind \in SetKinds
    /\ \E a \in ExtSetArgs(ItemArgs(kind)) :
        LET o == validSet_DisjunctiveUnion(SetCfg(kind), vs, a)
        IN ValidStep(o.c, vm, ids,
                     Call("DisjunctiveUnion", kind, a, vs, o.panic, ""))

VS_Filter ==
    /\ kind \in SetKinds
    /\ \E keep \in SUBSET ItemArgs(kind) :
        ValidStep(validSet_Filter(vs, keep), vm, ids,
                  Call("Filter", kind, keep, vs, "", ""))

VS_Clear ==
    /\ kind \in SetKinds
    /\ ValidStep({}, vm, ids, Call("Clear", kind, <<>>, vs, "", ""))

VM_Set ==
    /\ kind \in MapKinds
    /\ \E k \in PropNames, v \in ValueArgs(kind) :
        LET o == validMap_Set(MapCfg(kind), vm, k, v)
        IN ValidStep(vs, o.c, ids, Call("Set", kind, <<k, v>>, vm, o.panic, ""))

\* GetAndSet returns whether the key was present.
VM_GetAndSet ==
    /\ kind \in MapKinds
    /\ \E k \in PropNames, v \in ValueArgs(kind) :
        LET o == validMap_Set(MapCfg(kind), vm, k, v)
        IN ValidStep(vs, o.c, ids,
                     Call("GetAndSet", kind, <<k, v>>, vm, o.panic,
                          Bool(o.panic = "" /\ k \in DOMAIN vm)))

VM_SetMap ==
    /\ kind \in MapKinds
    /\ \E a \in ExtMapArgs(kind) :
        \E o \in validMap_SetMap(MapCfg(kind), vm, a) :
            ValidStep(vs, o.c, ids, Call("SetMap", kind, a, vm, o.panic, ""))

\* GetAndSetMap returns the pairs it replaced; res is their keys.
VM_GetAndSetMap ==
    /\ kind \in MapKinds
    /\ \E a \in ExtMapArgs(kind) :
        \E o \in validMap_SetMap(MapCfg(kind), vm, a) :
            ValidStep(vs, o.c, ids,
                      Call("GetAndSetMap", kind, a, vm, o.panic,
                           IF o.panic = "" /\ a.ref # NIL
                           THEN DOMAIN vm \cap DOMAIN a.m ELSE {}))

VM_Remove ==
    /\ kind \in MapKinds
    /\ \E ks \in SeqsUpTo(PropNames, MaxArgs) :
        ValidStep(vs, validMap_Remove(vm, ks), ids,
                  Call("Remove", kind, SeqRange(ks), vm, "", ""))

VM_GetAndRemove ==
    /\ kind \in MapKinds
    /\ \E k \in PropNames :
        ValidStep(vs, validMap_Remove(vm, <<k>>), ids,
                  Call("GetAndRemove", kind, {k}, vm, "",
                       Bool(k \in DOMAIN vm)))

VM_Filter ==
    /\ kind \in MapKinds
    /\ \E keep \in SUBSET ValidPropNames :
        ValidStep(vs, validMap_Filter(vm, keep), ids,
                  Call("Filter", kind, keep, vm, "", ""))

VM_Clear ==
    /\ kind \in MapKinds
    /\ ValidStep(vs, EmptyMap, ids, Call("Clear", kind, <<>>, vm, "", ""))

IDS_Add ==
    /\ kind = "IDSet"
    /\ \E xs \in SeqsUpTo(IDArgs, MaxArgs) :
        \E o \in idSetImpl_Add(ids, xs) :
            ValidStep(vs, vm, o.c,
                      Call("Add", kind, SeqRange(xs), ids, o.panic, ""))

IDS_Remove ==
    /\ kind = "IDSet"
    /\ \E xs \in SeqsUpTo(IDArgs, MaxArgs) :
        ValidStep(vs, vm, idSetImpl_Remove(ids, xs),
                  Call("Remove", kind, SeqRange(xs), ids, "", ""))

IDS_Union ==
    /\ kind = "IDSet"
    /\ \E a \in ExtSetArgs(IDArgs) :
        \E o \in idSetImpl_Union(ids, a) :
            ValidStep(vs, vm, o.c, Call("Union", kind, a, ids, o.panic, ""))

IDS_Intersect ==
    /\ kind = "IDSet"
    /\ \E a \in ExtSetArgs(IDArgs) :
        \E m \in idSetImpl_Intersect(ids, a) :
            ValidStep(vs, vm, m, Call("Intersect", kind, a, ids, "", ""))

IDS_Subtract ==
    /\ kind = "IDSet"
    /\ \E a \in ExtSetArgs(IDArgs) :
        \E m \in idSetImpl_Subtract(ids, a) :
            ValidStep(vs, vm, m, Call("Subtract", kind, a, ids, "", ""))

IDS_DisjunctiveUnion ==
    /\ kind = "IDSet"
    /\ \E a \in ExtSetArgs(IDArgs) :
        \E o \in idSetImpl_DisjunctiveUnion(ids, a) :
            ValidStep(vs, vm, o.c,
                      Call("DisjunctiveUnion", kind, a, ids, o.panic, ""))

IDS_Filter ==
    /\ kind = "IDSet"
    /\ \E keep \in SUBSET (IDArgs \ {ZeroID}) :
        \E m \in idSetImpl_Filter(ids, keep) :
            ValidStep(vs, vm, m, Call("Filter", kind, keep, ids, "", ""))

IDS_Clear ==
    /\ kind = "IDSet"
    /\ ValidStep(vs, vm, EmptyMap, Call("Clear", kind, <<>>, ids, "", ""))

IDS_ContainsSet ==
    /\ kind = "IDSet"
    /\ \E a \in ExtSetArgs(IDArgs) :
        \E res \in idSetImpl_ContainsSet(ids, a) :
            ValidStep(vs, vm, ids,
                      Call("ContainsSet", kind, a, ids, "", Bool(res)))

IDS_ContainsAny ==
    /\ kind = "IDSet"
    /\ \E a \in ExtSetArgs(IDArgs) :
        \E res \in idSetImpl_ContainsAny(ids, a) :
            ValidStep(vs, vm, ids,
                      Call("ContainsAny", kind, a, ids, "", Bool(res)))

IdleFam == fam = <<>> /\ reg = <<>>

\* One collection, from NewTypeSet, NewPropNameSet, NewIDSet, NewPropMap or
\* NewPropTypeMap on.
InitValid ==
    /\ kind \in ValidKinds
    /\ vs = {} /\ vm = EmptyMap /\ ids = EmptyMap
    /\ IdleFam /\ IdleEval
    /\ last = NoCall

NextValid ==
    \/ VS_Add \/ VS_Remove \/ VS_Union \/ VS_Intersect \/ VS_Subtract
    \/ VS_DisjunctiveUnion \/ VS_Filter \/ VS_Clear
    \/ VM_Set \/ VM_GetAndSet \/ VM_SetMap \/ VM_GetAndSetMap
    \/ VM_Remove \/ VM_GetAndRemove \/ VM_Filter \/ VM_Clear
    \/ IDS_Add \/ IDS_Remove \/ IDS_Union \/ IDS_Intersect \/ IDS_Subtract
    \/ IDS_DisjunctiveUnion \/ IDS_Filter \/ IDS_Clear
    \/ IDS_ContainsSet \/ IDS_ContainsAny

SpecValid == InitValid /\ [][NextValid]_vars

\* ------------------------------- claims about the validated collections
\* The contents of the collection.
Contents ==
    IF kind \in SetKinds THEN vs ELSE IF kind \in MapKinds THEN vm ELSE ids

KeyIsValid(k, key) == PropName_IsValid(key)

ValueIsValid(k, v) ==
    IF k = "PropMap" THEN PropType_IsValid(PropTypeOf(v))
    ELSE PropType_IsValid(v)

\* Whether x, an item of a set or a pair <<key, value>> of a map, is valid
\* for a collection of kind k.
ItemIsValid(k, x) ==
    CASE k = "TypeSet" -> Type_IsValid(x)
      [] k = "PropNameSet" -> PropName_IsValid(x)
      [] k = "IDSet" -> ID_IsValid(x)
      [] k \in MapKinds -> KeyIsValid(k, x[1]) /\ ValueIsValid(k, x[2])

\* The items the last call was asked to insert.
Batch ==
    CASE last.op = "Add" -> last.a
      [] last.op \in {"Union", "DisjunctiveUnion"} -> last.a.items
      [] last.op \in {"Set", "GetAndSet"} -> {last.a}
      [] last.op \in {"SetMap", "GetAndSetMap"} ->
            {<<key, last.a.m[key]>> : key \in DOMAIN last.a.m}
      [] OTHER -> {}

\* The errors the constructor of a collection of kind k configured for the
\* invalid items of B.
ConfiguredErrors(k, B) ==
    CASE k = "TypeSet" -> {"*InvalidTypeError"}
      [] k = "PropNameSet" -> {"*InvalidPropNameError"}
      [] k = "IDSet" -> {"*InvalidIDError"}
      [] k = "PropMap" ->
            {"*InvalidPropNameError" : x \in {y \in B : ~KeyIsValid(k, y[1])}}
            \cup {"*InvalidPropValueError" :
                  x \in {y \in B : KeyIsValid(k, y[1])
                                   /\ ~ValueIsValid(k, y[2])}}
      [] k = "PropTypeMap" ->
            {"*InvalidPropNameError" : x \in {y \in B : ~KeyIsValid(k, y[1])}}
            \cup {"*InvalidPropTypeError" :
                  x \in {y \in B : KeyIsValid(k, y[1])
                                   /\ ~ValueIsValid(k, y[2])}}

\* C3: an inserting call (Add, Union, DisjunctiveUnion, Set, GetAndSet,
\* SetMap, GetAndSetMap) whose batch has an invalid item panics with the
\* error configured for the collection and leaves the contents as they
\* were before the call.
C3_AllOrNothing ==
    (\E x \in Batch : ~ItemIsValid(kind, x)) =>
        /\ last.panic \in ConfiguredErrors(kind, Batch)
        /\ Contents = last.pre

\* SetMap on a non-empty map has panicked although its argument also had a
\* valid pair whose key the map did not hold.
C3_Witness ==
    /\ last.op = "SetMap"
    /\ last.panic # ""
    /\ DOMAIN last.pre # {}
    /\ \E key \in DOMAIN last.a.m \ DOMAIN last.pre :
           ItemIsValid(kind, <<key, last.a.m[key]>>)

\* C4: in every reachable state, panicking calls included, a TypeSet holds
\* only valid Types, a PropNameSet only valid PropNames, an IDSet only valid
\* IDs, a PropMap only valid PropNames with values whose PropTypeOf is valid,
\* a PropTypeMap only valid PropNames with valid PropTypes.
C4_OnlyValidItems ==
    /\ kind \in SetKinds => \A x \in vs : ItemIsValid(kind, x)
    /\ kind = "IDSet" => \A x \in IDSet_Items(ids) : ItemIsValid(kind, x)
    /\ kind \in MapKinds =>
           \A key \in DOMAIN vm : ItemIsValid(kind, <<key, vm[key]>>)

\* A call on a non-empty PropMap has panicked over an invalid value.
C4_Witness ==
    /\ kind = "PropMap"
    /\ last.panic = "*InvalidPropValueError"
    /\ DOMAIN vm # {}

\* ---------------------------------------------- the match-condition types
\* A *Node and a *Link as Match reads them: ID, Type and Props, and for a
\* link the endpoint nodes From and To. Props is a PropMap or nil.
Node(id, t, props) == [ref |-> "node", ID |-> id, Type |-> t, Props |-> props]

Link(id, t, props, from, to) ==
    [ref |-> "link", ID |-> id, Type |-> t, Props |-> props,
     From |-> from, To |-> to]

\* A propMatchClauseImpl with its three components.
PropMatchClause(equal, present, absent) ==
    [ref |-> "pmc", equal |-> equal, present |-> present, absent |-> absent]

\* nodeMatchClauseImpl{nlMatchClauseImpl{id, t, pmc}}.
NodeMatchClause(id, t, pmc) == [ref |-> "nmc", id |-> id, t |-> t, pmc |-> pmc]

\* linkMatchClauseImpl{nlMatchClauseImpl{id, t, pmc}, from, to}.
LinkMatchClause(id, t, pmc, from, to) ==
    [ref |-> "lmc", id |-> id, t |-> t, pmc |-> pmc, from |-> from, to |-> to]

\* A non-nil PropMatchCond, NodeMatchCond or LinkMatchCond with clauses cs.
Cond(cs) == [ref |-> "cond", cs |-> cs]

\* The outcomes of "A && B" where A has the outcomes R and B, evaluated only
\* when A is true, the outcomes S.
AndThen(R, S) == UNION {IF r = "true" THEN S ELSE {r} : r \in R}

\* The outcomes of "A || B" in the same way.
OrElse(R, S) == UNION {IF r = "false" THEN S ELSE {r} : r \in R}

\* A nodeMatchClauseImpl.Match without the case of the type.
nodeMatchClauseImpl_MatchNoType(nmc, node) ==
    IF IsNil(node) THEN {"false"}
    ELSE IF ID_IsValid(nmc.id) /\ node.ID # nmc.id THEN {"false"}
    ELSE IF IsNil(nmc.pmc) THEN {"true"}
    ELSE PropMatchClause_Match(nmc.pmc, node.Props)

\* nodeMatchClauseImpl.Match(node): the cases of its switch in order.
nodeMatchClauseImpl_Match(nmc, node) ==
    IF IsNil(node) THEN {"false"}
    ELSE IF ID_IsValid(nmc.id) /\ node.ID # nmc.id THEN {"false"}
    ELSE IF Type_IsValid(nmc.t) /\ node.Type # nmc.t THEN {"false"}
    ELSE IF IsNil(nmc.pmc) THEN {"true"}
    ELSE PropMatchClause_Match(nmc.pmc, node.Props)

\* A linkMatchClauseImpl.Match that hands link.From to the clause of To.
linkMatchClauseImpl_MatchToOnFrom(lmc, link) ==
    IF IsNil(link) THEN {"false"}
    ELSE IF ID_IsValid(lmc.id) /\ link.ID # lmc.id THEN {"false"}
    ELSE IF Type_IsValid(lmc.t) /\ link.Type # lmc.t THEN {"false"}
    ELSE AndThen(IF IsNil(lmc.pmc) THEN {"true"}
                 ELSE PropMatchClause_Match(lmc.pmc, link.Props),
         AndThen(IF IsNil(lmc.from) THEN {"true"}
                 ELSE nodeMatchClauseImpl_Match(lmc.from, link.From),
                 IF IsNil(lmc.to) THEN {"true"}
                 ELSE nodeMatchClauseImpl_Match(lmc.to, link.From)))

\* linkMatchClauseImpl.Match(link): the cases of its switch in order.
linkMatchClauseImpl_Match(lmc, link) ==
    IF IsNil(link) THEN {"false"}
    ELSE IF ID_IsValid(lmc.id) /\ link.ID # lmc.id THEN {"false"}
    ELSE IF Type_IsValid(lmc.t) /\ link.Type # lmc.t THEN {"false"}
    ELSE AndThen(IF IsNil(lmc.pmc) THEN {"true"}
                 ELSE PropMatchClause_Match(lmc.pmc, link.Props),
         AndThen(IF IsNil(lmc.from) THEN {"true"}
                 ELSE nodeMatchClauseImpl_Match(lmc.from, link.From),
                 IF IsNil(lmc.to) THEN {"true"}
                 ELSE nodeMatchClauseImpl_Match(lmc.to, link.To)))

\* The loop of PropMatchCond.Match over the clauses cs.
RECURSIVE PropMatchCond_range(_, _)
PropMatchCond_range(cs, props) ==
    IF cs = <<>> THEN {"false"}
    ELSE IF IsNil(Head(cs)) THEN PropMatchCond_range(Tail(cs), props)
    ELSE OrElse(PropMatchClause_Match(Head(cs), props),
                PropMatchCond_range(Tail(cs), props))

PropMatchCond_Match(cond, props) ==
    IF IsNil(cond) THEN {"true"} ELSE PropMatchCond_range(cond.cs, props)

\* The loop of NodeMatchCond.Match over the clauses cs.
RECURSIVE NodeMatchCond_range(_, _)
NodeMatchCond_range(cs, node) ==
    IF cs = <<>> THEN {"false"}
    ELSE IF IsNil(Head(cs)) THEN NodeMatchCond_range(Tail(cs), node)
    ELSE OrElse(nodeMatchClauseImpl_Match(Head(cs), node),
                NodeMatchCond_range(Tail(cs), node))

NodeMatchCond_Match(cond, node) ==
    IF IsNil(cond) THEN {"true"} ELSE NodeMatchCond_range(cond.cs, node)

\* The loop of LinkMatchCond.Match over the clauses cs.
RECURSIVE LinkMatchCond_range(_, _)
LinkMatchCond_range(cs, link) ==
    IF cs = <<>> THEN {"false"}
    ELSE IF IsNil(Head(cs)) THEN LinkMatchCond_range(Tail(cs), link)
    ELSE OrElse(linkMatchClauseImpl_Match(Head(cs), link),
                LinkMatchCond_range(Tail(cs), link))

LinkMatchCond_Match(cond, link) ==
    IF IsNil(cond) THEN {"true"} ELSE LinkMatchCond_range(cond.cs, link)

\* ------------------------------------------ the receivers and arguments
\* Where a property name can be in a clause: in none of its components, in
\* Present, in Absent, or in Equal with a valid value.
Roles ==
    {[in |-> "none"], [in |-> "present"], [in |-> "absent"]}
    \cup {[in |-> "equal", v |-> v] : v \in {VInt1, VBytes}}

PropMatchClauseOf(r) ==
    PropMatchClause([k \in {n \in DOMAIN r : r[n].in = "equal"} |-> r[k].v],
                    {n \in DOMAIN r : r[n].in = "present"},
                    {n \in DOMAIN r : r[n].in = "absent"})

\* Every clause the calls on Equal, Present and Absent can build.
PropMatchClauses == {PropMatchClauseOf(r) : r \in [ValidPropNames -> Roles]}

ID1 == [t |-> "T1", s |-> "d-0"]

ID2 == [t |-> "T1", s |-> "d-1"]

PmcIntAbsent == PropMatchClause([k \in {"a"} |-> VInt1], {}, {"b"})

PmcBytesAbsent == PropMatchClause([k \in {"a"} |-> VBytes], {}, {"b"})

PmcPresent == PropMatchClause(EmptyMap, {"a"}, {})

\* The clauses put in a PropMatchCond or in a LinkMatchClause.
PmcSamples == {PmcIntAbsent, PmcBytesAbsent, PmcPresent}

\* SetID and SetType keep a valid value or the zero value.
NodeMatchClauses ==
    {NodeMatchClause(id, t, pmc) :
        id \in {ZeroID, ID1}, t \in {"", "T1"},
        pmc \in {NilRef} \cup PropMatchClauses}

NmcAny == NodeMatchClause(ZeroID, "", NilRef)

NmcID == NodeMatchClause(ID1, "", NilRef)

NmcIntAbsent == NodeMatchClause(ID1, "T1", PmcIntAbsent)

NmcBytesAbsent == NodeMatchClause(ZeroID, "", PmcBytesAbsent)

\* The clauses put in a NodeMatchCond or in a LinkMatchClause.
NmcSamples == {NmcAny, NmcID, NmcIntAbsent, NmcBytesAbsent}

Nodes ==
    {NilRef} \cup {Node(id, t, props) :
                      id \in {ID1, ID2}, t \in ValidTypes, props \in PropsArgs}

NodeA == Node(ID1, "T1", MapArg("ext", [k \in {"a"} |-> VInt1]))

NodeB == Node(ID2, "T2", MapArg(NIL, EmptyMap))

NodeC == Node(ID2, "T1", MapArg("ext", [k \in {"a"} |-> VBytes]))

LinkProps ==
    {MapArg(NIL, EmptyMap)}
    \cup {MapArg("ext", [k \in {"a"} |-> v]) : v \in {VInt1, VBytes}}

Links ==
    {NilRef} \cup {Link(id, t, props, from, to) :
                      id \in {ID1, ID2}, t \in ValidTypes, props \in LinkProps,
                      from \in {NilRef, NodeA, NodeB},
                      to \in {NilRef, NodeA, NodeC}}

LinkMatchClauses ==
    {LinkMatchClause(id, t, pmc, from, to) :
        id \in {ZeroID, ID1}, t \in {"", "T1"},
        pmc \in {NilRef, PmcIntAbsent, PmcBytesAbsent},
        from \in {NilRef} \cup NmcSamples, to \in {NilRef} \cup NmcSamples}

LmcAny == LinkMatchClause(ZeroID, "", NilRef, NilRef, NilRef)

LmcFrom == LinkMatchClause(ZeroID, "T1", NilRef, NmcIntAbsent, NilRef)

LmcBytesAbsent == LinkMatchClause(ZeroID, "", PmcBytesAbsent, NilRef, NilRef)

LmcTo == LinkMatchClause(ID1, "", NilRef, NilRef, NmcBytesAbsent)

\* The clauses put in a LinkMatchCond.
LmcSamples == {LmcAny, LmcFrom, LmcBytesAbsent, LmcTo}

\* The nil condition and the conditions of up to MaxCondLen clauses of S,
\* nil clauses included.
Conds(S) ==
    {NilRef} \cup {Cond(cs) : cs \in SeqsUpTo({NilRef} \cup S, MaxCondLen)}

Receivers ==
    {[kind |-> "PropMatchCond", v |-> c] : c \in Conds(PmcSamples)}
    \cup {[kind |-> "NodeMatchClause", v |-> c] : c \in NodeMatchClauses}
    \cup {[kind |-> "NodeMatchCond", v |-> c] : c \in Conds(NmcSamples)}
    \cup {[kind |-> "LinkMatchClause", v |-> c] : c \in LinkMatchClauses}
    \cup {[kind |-> "LinkMatchCond", v |-> c] : c \in Conds(LmcSamples)}

\* ------------------------------------------------------ the calls of Match
\* Match(a) on the receiver has ended with outcome res.
MatchStep(a, res) ==
    /\ arg' = a
    /\ last' = Call("Match", rcv.kind, <<>>, <<>>,
                    IF res = "panic" THEN "runtime error" ELSE "", res)
    /\ UNCHANGED <<fam, reg, kind, vs, vm, ids, rcv>>

PropMatchCond_MatchCall ==
    /\ rcv.kind = "PropMatchCond"
    /\ \E props \in PropsArgs :
        \E res \in PropMatchCond_Match(rcv.v, props) : MatchStep(props, res)

NodeMatchClause_MatchCall ==
    /\ rcv.kind = "NodeMatchClause"
    /\ \E node \in Nodes :
        \E res \in nodeMatchClauseImpl_Match(rcv.v, node) : MatchStep(node, res)

NodeMatchCond_MatchCall ==
    /\ rcv.kind = "NodeMatchCond"
    /\ \E node \in Nodes :
        \E res \in NodeMatchCond_Match(rcv.v, node) : MatchStep(node, res)

LinkMatchClause_MatchCall ==
    /\ rcv.kind = "LinkMatchClause"
    /\ \E link \in Links :
        \E res \in linkMatchClauseImpl_Match(rcv.v, link) : MatchStep(link, res)

LinkMatchCond_MatchCall ==
    /\ rcv.kind = "LinkMatchCond"
    /\ \E link \in Links :
        \E res \in LinkMatchCond_Match(rcv.v, link) : MatchStep(link, res)

\* One clause or condition, as built, and the calls of its Match.
InitMatch ==
    /\ rcv \in Receivers
    /\ arg = NilRef
    /\ IdleFam /\ IdleValid
    /\ last = NoCall

NextMatch ==
    \/ PropMatchCond_MatchCall
    \/ NodeMatchClause_MatchCall \/ NodeMatchCond_MatchCall
    \/ LinkMatchClause_MatchCall \/ LinkMatchCond_MatchCall

SpecMatch == InitMatch /\ [][NextMatch]_vars

\* ------------------------------------ claims about the match conditions
\* Whether clause c of a condition of kind k matches a: its Match is true.
ClauseMatches(k, c, a) ==
    CASE k = "PropMatchCond" -> PropMatchClause_Match(c, a) = {"true"}
      [] k = "NodeMatchCond" -> nodeMatchClauseImpl_Match(c, a) = {"true"}
      [] k = "LinkMatchCond" -> linkMatchClauseImpl_Match(c, a) = {"true"}

CondKinds == {"PropMatchCond", "NodeMatchCond", "LinkMatchCond"}

\* C8: Match of a nil PropMatchCond, NodeMatchCond or LinkMatchCond is true
\* for every argument; Match of a non-nil one is true exactly when one of its
\* non-nil clauses matches the argument, so never for one with no clauses
\* or with nil clauses only.
C8_CondMatchesIffAnyClause ==
    (last.op = "Match" /\ rcv.kind \in CondKinds) =>
        IF IsNil(rcv.v) THEN last.res = "true"
        ELSE last.res = "true" <=>
                \E i \in 1..Len(rcv.v.cs) :
                    /\ ~IsNil(rcv.v.cs[i])
                    /\ ClauseMatches(rcv.kind, rcv.v.cs[i], arg)

\* Whether the ID, the Type and the PropMatchClause of clause c, each when
\* specified, hold for the node or link e.
NLHolds(c, e) ==
    /\ ID_IsValid(c.id) => e.ID = c.id
    /\ Type_IsValid(c.t) => e.Type = c.t
    /\ ~IsNil(c.pmc) => PropMatchClause_Match(c.pmc, e.Props) = {"true"}

\* C9: NodeMatchClause.Match(node) is true exactly when node is not nil,
\* node.ID is the ID specified if any, node.Type the Type specified if any,
\* and Match of the PropMatchClause specified, if any, is true on
\* node.Props.
C9_NodeClauseMatch ==
    (last.op = "Match" /\ rcv.kind = "NodeMatchClause") =>
        (last.res = "true" <=> (~IsNil(arg) /\ NLHolds(rcv.v, arg)))

\* Match is true for a clause with an ID, a Type and a PropMatchClause.
C9_Witness ==
    /\ last.op = "Match"
    /\ rcv.kind = "NodeMatchClause"
    /\ last.res = "true"
    /\ ID_IsValid(rcv.v.id)
    /\ Type_IsValid(rcv.v.t)
    /\ ~IsNil(rcv.v.pmc)

\* C10: LinkMatchClause.Match(link) is true exactly when link is not nil,
\* the ID, Type and PropMatchClause specified hold for the link, the
\* NodeMatchClause specified for From matches link.From and the one
\* specified for To matches link.To; so it is not true when an endpoint with
\* a NodeMatchClause specified is nil.
C10_LinkClauseMatch ==
    (last.op = "Match" /\ rcv.kind = "LinkMatchClause") =>
        /\ last.res = "true" <=>
              /\ ~IsNil(arg)
              /\ NLHolds(rcv.v, arg)
              /\ ~IsNil(rcv.v.from) =>
                    nodeMatchClauseImpl_Match(rcv.v.from, arg.From) = {"true"}
              /\ ~IsNil(rcv.v.to) =>
                    nodeMatchClauseImpl_Match(rcv.v.to, arg.To) = {"true"}
        /\ (~IsNil(arg) /\ ~IsNil(rcv.v.from) /\ IsNil(arg.From)) =>
              last.res # "true"
        /\ (~IsNil(arg) /\ ~IsNil(rcv.v.to) /\ IsNil(arg.To)) =>
              last.res # "true"

\* Match is true for a clause with different clauses for From and To, on a
\* link with different endpoints.
C10_Witness ==
    /\ last.op = "Match"
    /\ rcv.kind = "LinkMatchClause"
    /\ last.res = "true"
    /\ ~IsNil(rcv.v.from)
    /\ ~IsNil(rcv.v.to)
    /\ rcv.v.from # rcv.v.to
    /\ arg.From # arg.To

\* ------------------------------------------ the setters of the clauses
\* nlMatchClauseImpl.SetID(id): a valid id is kept, any other becomes ID{}.
nlMatchClauseImpl_SetID(c, id) ==
    [c EXCEPT !.id = IF ID_IsValid(id) THEN id ELSE ZeroID]

\* nlMatchClauseImpl.SetType(t): a valid t is kept, any other becomes Type{}.
nlMatchClauseImpl_SetType(c, t) ==
    [c EXCEPT !.t = IF Type_IsValid(t) THEN t ELSE ""]

\* A SetIDAndClearOtherConds that keeps the PropMatchClause.
SetIDAndClearType(c, id) ==
    [nlMatchClauseImpl_SetID(c, id) EXCEPT !.t = ""]

\* nodeMatchClauseImpl.SetIDAndClearOtherConds(id) on a node clause and
\* linkMatchClauseImpl.SetIDAndClearOtherConds(id) on a link clause.
SetIDAndClearOtherConds(c, id) ==
    IF c.ref = "nmc"
    THEN [nlMatchClauseImpl_SetID(c, id) EXCEPT !.t = "", !.pmc = NilRef]
    ELSE [nlMatchClauseImpl_SetID(c, id) EXCEPT !.t = "", !.pmc = NilRef,
                                                !.from = NilRef, !.to = NilRef]

\* A setter called with a has left the clause as c.
ClauseStep(op, a, c) ==
    /\ rcv' = [rcv EXCEPT !.v = c]
    /\ last' = Call(op, rcv.kind, a, rcv.v, "", "")
    /\ UNCHANGED <<fam, reg, kind, vs, vm, ids, arg>>

Clause_SetID ==
    \E id \in {ZeroID, ID1, ID2} :
        ClauseStep("SetID", id, nlMatchClauseImpl_SetID(rcv.v, id))

Clause_SetType ==
    \E t \in Types :
        ClauseStep("SetType", t, nlMatchClauseImpl_SetType(rcv.v, t))

Clause_SetPropMatchClause ==
    \E pmc \in {NilRef} \cup PmcSamples :
        ClauseStep("SetPropMatchClause", pmc, [rcv.v EXCEPT !.pmc = pmc])

Clause_SetFromNodeMatchClause ==
    /\ rcv.kind = "LinkMatchClause"
    /\ \E nmc \in {NilRef} \cup NmcSamples :
        ClauseStep("SetFromNodeMatchClause", nmc, [rcv.v EXCEPT !.from = nmc])

Clause_SetToNodeMatchClause ==
    /\ rcv.kind = "LinkMatchClause"
    /\ \E nmc \in {NilRef} \cup NmcSamples :
        ClauseStep("SetToNodeMatchClause", nmc, [rcv.v EXCEPT !.to = nmc])

Clause_SetIDAndClearOtherConds ==
    \E id \in {ZeroID, ID1, ID2} :
        ClauseStep("SetIDAndClearOtherConds", id,
                   SetIDAndClearOtherConds(rcv.v, id))

\* One clause, from NewNodeMatchClause or NewLinkMatchClause on.
InitClause ==
    /\ rcv \in {[kind |-> "NodeMatchClause",
                 v |-> NodeMatchClause(ZeroID, "", NilRef)],
                [kind |-> "LinkMatchClause",
                 v |-> LinkMatchClause(ZeroID, "", NilRef, NilRef, NilRef)]}
    /\ arg = NilRef
    /\ IdleFam /\ IdleValid
    /\ last = NoCall

NextClause ==
    \/ Clause_SetID \/ Clause_SetType \/ Clause_SetPropMatchClause
    \/ Clause_SetFromNodeMatchClause \/ Clause_SetToNodeMatchClause
    \/ Clause_SetIDAndClearOtherConds

SpecClause == InitClause /\ [][NextClause]_vars

\* Match of clause c on the node or link e.
ClauseMatch(c, e) ==
    IF c.ref = "nmc" THEN nodeMatchClauseImpl_Match(c, e)
    ELSE linkMatchClauseImpl_Match(c, e)

\* The ID the clause has after a setter was given id.
IDSpecified(id) == IF ID_IsValid(id) THEN id ELSE ZeroID

\* C11: after SetIDAndClearOtherConds(id) the ID is id (unspecified for an
\* invalid id), GetType is the zero Type, GetPropMatchClause and, for a link
\* clause, GetFromNodeMatchClause and GetToNodeMatchClause are nil, and for a
\* valid id Match is true exactly for the non-nil entities with that ID;
\* after SetID(id) the ID is the same and every other constraint is what it
\* was before the call.
C11_SetIDAndClear ==
    /\ last.op = "SetIDAndClearOtherConds" =>
          /\ rcv.v.id = IDSpecified(last.a)
          /\ rcv.v.t = ""
          /\ IsNil(rcv.v.pmc)
          /\ rcv.kind = "LinkMatchClause" =>
                IsNil(rcv.v.from) /\ IsNil(rcv.v.to)
          /\ ID_IsValid(last.a) =>
                \A e \in IF rcv.kind = "LinkMatchClause" THEN Links ELSE Nodes :
                    ClauseMatch(rcv.v, e) = {"true"}
                        <=> (~IsNil(e) /\ e.ID = last.a)
    /\ last.op = "SetID" =>
          /\ rcv.v.id = IDSpecified(last.a)
          /\ rcv.v = [last.pre EXCEPT !.id = rcv.v.id]

\* SetIDAndClearOtherConds has been called with a valid id on a link clause
\* that had a Type, a PropMatchClause and clauses for From and To.
C11_Witness ==
    /\ last.op = "SetIDAndClearOtherConds"
    /\ ID_IsValid(last.a)
    /\ rcv.kind = "LinkMatchClause"
    /\ last.pre.t # ""
    /\ ~IsNil(last.pre.pmc)
    /\ ~IsNil(last.pre.from)
    /\ ~IsNil(last.pre.to)

\* ------------------------------------------------- type and name strings
\* A Go string is a string; s[i] of Go is At(s, i + 1). The bytes are those
\* of printable ASCII but the double quote, the backslash and the grave
\* accent, Ord(c) being the value of the byte c.
Ascii ==
    <<[first |-> 32, bytes |-> " !"],
      [first |-> 35, bytes |-> "#$%&'()*+,-./0123456789:;<=>?@"],
      [first |-> 65, bytes |-> "ABCDEFGHIJKLMNOPQRSTUVWXYZ["],
      [first |-> 93, bytes |-> "]^_"],
      [first |-> 97, bytes |-> "abcdefghijklmnopqrstuvwxyz{|}~"]>>

At(s, i) == SubSeq(s, i, i)

AsciiOrd ==
    [c \in UNION {{At(Ascii[k].bytes, i) : i \in 1..Len(Ascii[k].bytes)} :
                  k \in 1..Len(Ascii)} |->
        CHOOSE n \in 32..126 :
            \E k \in 1..Len(Ascii) : \E i \in 1..Len(Ascii[k].bytes) :
                At(Ascii[k].bytes, i) = c /\ n = Ascii[k].first + i - 1]

Ord(c) == AsciiOrd[c]

\* The longest valid type or property name string, in bytes.
MaxStringLen == 65535

\* An IsValidTypeString that does not look for the prefix "SLN".
IsValidTypeStringAnyPrefix(t) ==
    /\ Len(t) >= 1 /\ Len(t) <= MaxStringLen
    /\ Ord(At(t, 1)) >= Ord("A") /\ Ord(At(t, 1)) <= Ord("Z")
    /\ ~\E i \in 2..Len(t) :
            \/ Ord(At(t, i)) < Ord("0")
            \/ Ord(At(t, i)) > Ord("z")
            \/ (Ord(At(t, i)) > Ord("9") /\ Ord(At(t, i)) < Ord("A"))
            \/ (Ord(At(t, i)) > Ord("Z") /\ At(t, i) # "_"
                /\ Ord(At(t, i)) < Ord("a"))

\* An IsValidPropNameString that lets every byte from '0' to 'z' follow the
\* first one.
IsValidPropNameStringAnyByte(name) ==
    /\ Len(name) >= 1 /\ Len(name) <= MaxStringLen
    /\ Ord(At(name, 1)) >= Ord("a") /\ Ord(At(name, 1)) <= Ord("z")
    /\ ~(Len(name) >= 3 /\ SubSeq(name, 1, 3) = "sln")
    /\ \A i \in 2..Len(name) :
          Ord(At(name, i)) >= Ord("0") /\ Ord(At(name, i)) <= Ord("z")

\* IsValidTypeString(t).
IsValidTypeString(t) ==
    IF \/ Len(t) < 1 \/ Len(t) > MaxStringLen
       \/ Ord(At(t, 1)) < Ord("A") \/ Ord(At(t, 1)) > Ord("Z")
       \/ (Len(t) >= 3 /\ SubSeq(t, 1, 3) = "SLN")
    THEN FALSE
    ELSE ~\E i \in 2..Len(t) :
            \/ Ord(At(t, i)) < Ord("0")
            \/ Ord(At(t, i)) > Ord("z")
            \/ (Ord(At(t, i)) > Ord("9") /\ Ord(At(t, i)) < Ord("A"))
            \/ (Ord(At(t, i)) > Ord("Z") /\ At(t, i) # "_"
                /\ Ord(At(t, i)) < Ord("a"))

\* IsValidPropNameString(name).
IsValidPropNameString(name) ==
    IF \/ Len(name) < 1 \/ Len(name) > MaxStringLen
       \/ Ord(At(name, 1)) < Ord("a") \/ Ord(At(name, 1)) > Ord("z")
       \/ (Len(name) >= 3 /\ SubSeq(name, 1, 3) = "sln")
    THEN FALSE
    ELSE ~\E i \in 2..Len(name) :
            \/ Ord(At(name, i)) < Ord("0")
            \/ Ord(At(name, i)) > Ord("z")
            \/ (Ord(At(name, i)) > Ord("9") /\ Ord(At(name, i)) < Ord("A"))
            \/ (Ord(At(name, i)) > Ord("Z") /\ At(name, i) # "_"
                /\ Ord(At(name, i)) < Ord("a"))

\* NewType(t): the Type (its field t) and the error, "" for nil.
NewType(t) ==
    IF IsValidTypeString(t) THEN [v |-> t, err |-> ""]
    ELSE [v |-> "", err |-> "*InvalidTypeError"]

\* MustNewType(t): the Type and what it panicked with, "" if it returned.
MustNewType(t) == [v |-> NewType(t).v, panic |-> NewType(t).err]

\* NewPropName(propName): the PropName (its field name) and the error.
NewPropName(propName) ==
    IF IsValidPropNameString(propName) THEN [v |-> propName, err |-> ""]
    ELSE [v |-> "", err |-> "*InvalidPropNameError"]

\* Type.String() and PropName.String() return the field.
Type_String(t) == t

PropName_String(pn) == pn

\* -------------------------------------------------------------- NewID
\* Date{year, yearDay}.
Date(year, yearDay) == [year |-> year, yearDay |-> yearDay]

\* The verb %03d of fmt.Sprintf on a number that is not negative.
Sprintf03d(n) ==
    IF n < 10 THEN "00" \o ToString(n)
    ELSE IF n < 100 THEN "0" \o ToString(n)
    ELSE ToString(n)

\* Date.String(): fmt.Sprintf("%d-%03d", d.year, d.yearDay).
Date_String(d) == ToString(d.year) \o "-" \o Sprintf03d(d.yearDay)

encode64Table ==
    "0123456789ABCDEFGHIJKLMNOPQRSTUVWXYZabcdefghijklmnopqrstuvwxyz-_"

\* A loop of NewID that masks the serial number with 037.
RECURSIVE encode64Mask037(_)
encode64Mask037(i) ==
    At(encode64Table, (i % 32) + 1)
    \o (IF i \div 64 = 0 THEN "" ELSE encode64Mask037((i \div 64) - 1))

\* A loop of NewID without "i--".
RECURSIVE encode64NoDecrement(_)
encode64NoDecrement(i) ==
    At(encode64Table, (i % 64) + 1)
    \o (IF i \div 64 = 0 THEN "" ELSE encode64NoDecrement(i \div 64))

\* The loop of NewID on a serial number i >= 0: the byte of i&077 is
\* written, i >>= 6, and the loop ends when i is 0 and goes on with i - 1
\* otherwise.
RECURSIVE encode64(_)
encode64(i) ==
    At(encode64Table, (i % 64) + 1)
    \o (IF i \div 64 = 0 THEN "" ELSE encode64((i \div 64) - 1))

\* A NewID that checks the type before the serial number.
NewIDTypeFirst(t, date, i) ==
    IF ~Type_IsValid(t) THEN [panic |-> "", id |-> ZeroID]
    ELSE IF i < 0 THEN [panic |-> "the number i is negative", id |-> ZeroID]
    ELSE [panic |-> "",
          id |-> [t |-> Type_String(t),
                  s |-> Date_String(date) \o "-" \o encode64(i)]]

\* NewID(t, date, i): what it panicked with ("" if it returned) and the ID.
NewID(t, date, i) ==
    IF i < 0 THEN [panic |-> "the number i is negative", id |-> ZeroID]
    ELSE IF ~Type_IsValid(t) THEN [panic |-> "", id |-> ZeroID]
    ELSE [panic |-> "",
          id |-> [t |-> Type_String(t),
                  s |-> Date_String(date) \o "-" \o encode64(i)]]

\* An ID.String() that leaves out the number sign.
ID_StringNoSign(id) == IF id.t = "" THEN "" ELSE id.t \o id.s

\* ID.String().
ID_String(id) == IF id.t = "" THEN "" ELSE id.t \o "#" \o id.s

\* ID.Type(): the Type and what it panicked with, "" if it returned.
ID_Type(id) ==
    IF id.t = "" THEN [v |-> "", panic |-> ""] ELSE MustNewType(id.t)

\* The dates DateOf and DateOfYearMonthDay give for four days.
DateArgs == {Date(2023, 1), Date(2023, 10), Date(2024, 1), Date(0, 366)}

\* Serial numbers, -1 and the largest being the ends of the range the
\* integers of the model have.
SerialArgs ==
    {-1, 0, 1, 32, 63, 64, 65, 4159, 4160, 266303, 266304, 2147483647}

NewIDArgs == [t : Types, date : DateArgs, i : SerialArgs]

\* NewID on the arguments in, and the methods of the ID it returned.
NewIDOutcome(in) ==
    LET r == NewID(in.t, in.date, in.i)
    IN [panic |-> r.panic, id |-> r.id, String |-> ID_String(r.id),
        IsValid |-> ID_IsValid(r.id), Type |-> ID_Type(r.id)]

\* NewID is called on the arguments x and on the arguments y.
NewID_Call ==
    /\ last = NoCall
    /\ last' = Call("NewID", "", arg, <<>>, "",
                    [x |-> NewIDOutcome(arg.x), y |-> NewIDOutcome(arg.y)])
    /\ UNCHANGED <<fam, reg, kind, vs, vm, ids, rcv, arg>>

InitID ==
    /\ arg \in [x : NewIDArgs, y : NewIDArgs]
    /\ rcv = [kind |-> "", v |-> NilRef]
    /\ IdleFam /\ IdleValid
    /\ last = NoCall

NextID == NewID_Call

SpecID == InitID /\ [][NextID]_vars

\* ------------------------------------------------------ claims about NewID
\* The value of the digit c in the alphabet 0-9 A-Z a-z - _.
DigitValue(c) == CHOOSE k \in 0..63 : At(encode64Table, k + 1) = c

\* d0 + the sum over j >= 1 of (dj + 1) * 64^j, for the digits ds = dj ...
RECURSIVE Numeral(_, _)
Numeral(ds, j) ==
    IF ds = "" THEN 0
    ELSE (DigitValue(Head(ds)) + (IF j = 0 THEN 0 ELSE 1)) * 64^j
         + Numeral(Tail(ds), j + 1)

\* What follows "<Date>-" in the suffix of the ID made for the arguments in.
DigitsOf(in, id) ==
    SubSeq(id.s, Len(Date_String(in.date)) + 2, Len(id.s))

ValidCall(in) == Type_IsValid(in.t) /\ in.i >= 0

\* C12: for a valid type and a serial i >= 0, the suffix NewID makes is
\* "<Date>-" followed by digits d0 d1 ... dk of the alphabet with
\* i = d0 + sum over j >= 1 of (dj + 1) * 64^j: one digit up to 63, two up
\* to 4159 (64 gives "00", 4159 "__"), three up to 266303 (4160 gives
\* "000"), and 266304 gives "0000".
C12_BijectiveBase64 ==
    (last.op = "NewID" /\ ValidCall(arg.x)) =>
        LET id == last.res.x.id
            ds == DigitsOf(arg.x, id)
            i == arg.x.i
        IN /\ id.s = Date_String(arg.x.date) \o "-" \o ds
           /\ Len(ds) >= 1
           /\ \A n \in 1..Len(ds) :
                  \E k \in 1..Len(encode64Table) :
                      At(ds, n) = At(encode64Table, k)
           /\ Numeral(ds, 0) = i
           /\ Len(ds) = 1 <=> i <= 63
           /\ Len(ds) = 2 <=> (i >= 64 /\ i <= 4159)
           /\ Len(ds) = 3 <=> (i >= 4160 /\ i <= 266303)
           /\ i = 64 => ds = "00"
           /\ i = 4159 => ds = "__"
           /\ i = 4160 => ds = "000"
           /\ i = 266304 => ds = "0000"

\* NewID has made the ID of the serial 4159 of a valid type.
C12_Witness ==
    /\ last.op = "NewID"
    /\ Type_IsValid(arg.x.t)
    /\ arg.x.i = 4159
    /\ last.res.x.panic = ""

\* C13: for valid types and serials >= 0, two calls of NewID give equal IDs,
\* and IDs with equal String(), exactly when they were given the same type,
\* date and serial.
C13_NewIDInjective ==
    (last.op = "NewID" /\ ValidCall(arg.x) /\ ValidCall(arg.y)) =>
        /\ last.res.x.id = last.res.y.id <=> arg.x = arg.y
        /\ last.res.x.String = last.res.y.String <=> arg.x = arg.y

\* NewID has made the IDs of two serials of one type and date, one serial
\* with one digit and one with two.
C13_Witness ==
    /\ last.op = "NewID"
    /\ ValidCall(arg.x) /\ ValidCall(arg.y)
    /\ arg.x.t = arg.y.t
    /\ arg.x.date = arg.y.date
    /\ arg.x.i = 0
    /\ arg.y.i = 64

\* C14: NewID panics for every i < 0, whether the type is valid or not; for
\* i >= 0 and an invalid type it returns the zero ID, whose String() is ""
\* and whose IsValid() is false.
C14_NegativeSerialPanics ==
    last.op = "NewID" =>
        /\ arg.x.i < 0 => last.res.x.panic # ""
        /\ (arg.x.i >= 0 /\ ~Type_IsValid(arg.x.t)) =>
              /\ last.res.x.panic = ""
              /\ last.res.x.id = ZeroID
              /\ last.res.x.String = ""
              /\ ~last.res.x.IsValid

\* NewID has been called with a negative serial and the zero Type.
C14_Witness ==
    /\ last.op = "NewID"
    /\ arg.x.i < 0
    /\ ~Type_IsValid(arg.x.t)
    /\ last.res.x.panic # ""

\* C15: for the ID of NewID(t, date, i), i >= 0: IsValid() is true exactly
\* when t is valid; Type() returns t without a panic; String() is
\* t.String() + "#" + date.String() + "-" + the digits of i when t is valid
\* and "" otherwise.
C15_IDMethods ==
    (last.op = "NewID" /\ arg.x.i >= 0) =>
        /\ last.res.x.IsValid <=> Type_IsValid(arg.x.t)
        /\ last.res.x.Type = [v |-> arg.x.t, panic |-> ""]
        /\ last.res.x.String =
              IF Type_IsValid(arg.x.t)
              THEN Type_String(arg.x.t) \o "#" \o Date_String(arg.x.date)
                   \o "-" \o DigitsOf(arg.x, last.res.x.id)
              ELSE ""

\* The methods have been called on the ID of a valid type and a serial with
\* three digits.
C15_Witness ==
    /\ last.op = "NewID"
    /\ Type_IsValid(arg.x.t)
    /\ arg.x.i = 4160
    /\ last.res.x.IsValid

\* ---------------------------------------------- the calls on the strings
\* The string of n bytes c.
RECURSIVE Repeat(_, _)
Repeat(c, n) ==
    IF n = 0 THEN ""
    ELSE IF n % 2 = 0 THEN Repeat(c, n \div 2) \o Repeat(c, n \div 2)
    ELSE c \o Repeat(c, n - 1)

\* The strings handed to NewType and NewPropName: the empty string, a first
\* byte followed by none, one or more bytes, and strings as long as
\* MaxStringLen and one byte longer.
StringArgs ==
    {""}
    \cup {c \o r : c \in {"A", "Z", "S", "a", "z", "s", "0", "_", "@", "[",
                          "{"},
                   r \in {"", "0", "9", "A", "Z", "a", "z", "_", "-", "/",
                          ":", "@", "[", "^", "{", "LN", "ln", "LNx", "lnID",
                          "lnType", "lN", "Ln"}}
    \cup {c \o Repeat("x", n) : c \in {"A", "a"},
                                n \in {MaxStringLen - 1, MaxStringLen}}

\* NewType(arg) and IsValidTypeString(arg), and the methods of the Type.
NewType_Call ==
    /\ last = NoCall
    /\ last' = Call("NewType", "", arg, <<>>, "",
                    [ok |-> IsValidTypeString(arg.s),
                     v |-> NewType(arg.s).v,
                     err |-> NewType(arg.s).err,
                     IsValid |-> Type_IsValid(NewType(arg.s).v),
                     String |-> Type_String(NewType(arg.s).v)])
    /\ UNCHANGED <<fam, reg, kind, vs, vm, ids, rcv, arg>>

\* NewPropName(arg) and IsValidPropNameString(arg), and the methods of the
\* PropName.
NewPropName_Call ==
    /\ last = NoCall
    /\ last' = Call("NewPropName", "", arg, <<>>, "",
                    [ok |-> IsValidPropNameString(arg.s),
                     v |-> NewPropName(arg.s).v,
                     err |-> NewPropName(arg.s).err,
                     IsValid |-> PropName_IsValid(NewPropName(arg.s).v),
                     String |-> PropName_String(NewPropName(arg.s).v)])
    /\ UNCHANGED <<fam, reg, kind, vs, vm, ids, rcv, arg>>

InitString ==
    /\ arg \in {[s |-> x] : x \in StringArgs}
    /\ rcv = [kind |-> "", v |-> NilRef]
    /\ IdleFam /\ IdleValid
    /\ last = NoCall

NextString == NewType_Call \/ NewPropName_Call

SpecString == InitString /\ [][NextString]_vars

\* ------------------------------------------- claims about the strings
Bytes(s) == {At(s, i) : i \in 1..Len(s)}

UpperCase == Bytes("ABCDEFGHIJKLMNOPQRSTUVWXYZ")

LowerCase == Bytes("abcdefghijklmnopqrstuvwxyz")

WordBytes == UpperCase \cup LowerCase \cup Bytes("0123456789_")

\* s has 1 to 65535 bytes, the first one in first, the later ones letters,
\* digits or '_', and does not begin with reserved.
WellFormed(s, first, reserved) ==
    /\ Len(s) >= 1 /\ Len(s) <= 65535
    /\ At(s, 1) \in first
    /\ \A i \in 2..Len(s) : At(s, i) \in WordBytes
    /\ ~(Len(s) >= 3 /\ SubSeq(s, 1, 3) = reserved)

\* C16: IsValidTypeString(s) is true exactly when s has 1 to 65535 bytes,
\* begins with a byte of 'A'..'Z' followed only by bytes of 0-9, A-Z, a-z
\* and '_', and does not begin with "SLN"; exactly then NewType(s) returns a
\* Type with IsValid() true and String() = s and no error, and otherwise
\* the zero Type and an *InvalidTypeError.
C16_ValidTypeString ==
    last.op = "NewType" =>
        /\ last.res.ok <=> WellFormed(arg.s, UpperCase, "SLN")
        /\ IF WellFormed(arg.s, UpperCase, "SLN")
           THEN /\ last.res.err = ""
                /\ last.res.IsValid
                /\ last.res.String = arg.s
           ELSE /\ last.res.err = "*InvalidTypeError"
                /\ last.res.v = ""
                /\ ~last.res.IsValid

\* NewType has refused a string that begins with "SLN" and has only bytes
\* a type may have.
C16_Witness ==
    /\ last.op = "NewType"
    /\ arg.s = "SLNx"
    /\ last.res.err # ""

\* C17: IsValidPropNameString(s) is true exactly when s has 1 to 65535
\* bytes, begins with a byte of 'a'..'z' followed only by bytes of 0-9,
\* A-Z, a-z and '_', and does not begin with "sln" (so not for "sln",
\* "slnID", "slnType"); NewPropName(s) returns no error exactly then.
C17_ValidPropNameString ==
    last.op = "NewPropName" =>
        /\ last.res.ok <=> WellFormed(arg.s, LowerCase, "sln")
        /\ last.res.err = "" <=> last.res.ok
        /\ arg.s \in {"sln", "slnID", "slnType"} => ~last.res.ok
        /\ last.res.err = "" => (last.res.IsValid /\ last.res.String = arg.s)

\* NewPropName has refused "slnID".
C17_Witness ==
    /\ last.op = "NewPropName"
    /\ arg.s = "slnID"
    /\ last.res.err = "*InvalidPropNameError"

\* ------------------------------------------------- PropTypeOf and GoType
\* A GoType that takes maxPropType - 1 for the first invalid tag.
PropType_GoTypeShort(i) ==
    IF i > 0 /\ i < maxPropType - 1 THEN propTypes[i] ELSE "nil"

\* PropType.GoType(): the reflect.Type by its name, "nil" for nil.
PropType_GoType(i) == IF i > 0 /\ i < maxPropType THEN propTypes[i] ELSE "nil"

\* The zero value of the Go type with the name t.
ZeroValue(t) == [type |-> t, v |-> 0]

\* A PropType is an int8.
PropTypeTags == -128..127

\* The values handed to PropTypeOf: nil, the zero value of each Go type of
\* propTypes, a MyInt (type MyInt int), a *int, a Type and an ID.
GoValues ==
    {VNil, VMyInt}
    \cup {ZeroValue(propTypes[i]) : i \in 1..Len(propTypes)}
    \cup {ZeroValue(t) : t \in {"*int", "gosln.Type", "gosln.ID"}}

\* i.GoType() and i.IsValid() for the tag i of arg, and PropTypeOf on the
\* zero value of the Go type returned.
GoType_Call ==
    /\ last = NoCall
    /\ "tag" \in DOMAIN arg
    /\ last' = Call("GoType", "", arg, <<>>, "",
                    [GoType |-> PropType_GoType(arg.tag),
                     IsValid |-> PropType_IsValid(arg.tag),
                     PropTypeOf |->
                         PropTypeOf(ZeroValue(PropType_GoType(arg.tag)))])
    /\ UNCHANGED <<fam, reg, kind, vs, vm, ids, rcv, arg>>

\* PropTypeOf(v) for the value v of arg.
PropTypeOf_Call ==
    /\ last = NoCall
    /\ "value" \in DOMAIN arg
    /\ last' = Call("PropTypeOf", "", arg, <<>>, "", PropTypeOf(arg.value))
    /\ UNCHANGED <<fam, reg, kind, vs, vm, ids, rcv, arg>>

IntTypes == {"int", "int8", "int16", "int32", "int64"}
UintTypes == {"uint", "uint8", "uint16", "uint32", "uint64", "uintptr"}
FloatTypes == {"float32", "float64"}
ComplexTypes == {"complex64", "complex128"}

\* reflect.Type.AssignableTo among the Go types of propTypes: none of them
\* is an interface and no two have the same underlying type, so a value is
\* assignable to its own type only.
Type_AssignableTo(k, t) == k = t

\* reflect.Type.ConvertibleTo among the Go types of propTypes: integers
\* convert to integers, floats and string, floats to integers and floats,
\* complex to complex, string to []byte and back; a struct converts to a
\* struct with the same fields only, so time.Time and Date to themselves.
Type_ConvertibleTo(k, t) ==
    \/ k = t
    \/ /\ k \in IntTypes \cup UintTypes
       /\ t \in IntTypes \cup UintTypes \cup FloatTypes \cup {"string"}
    \/ k \in FloatTypes /\ t \in IntTypes \cup UintTypes \cup FloatTypes
    \/ k \in ComplexTypes /\ t \in ComplexTypes
    \/ k = "string" /\ t = "[]byte"
    \/ k = "[]byte" /\ t = "string"

\* PropType.IsConvertibleTo(t).
PropType_IsConvertibleTo(i, t) ==
    IF i <= 0 \/ i >= maxPropType \/ t <= 0 \/ t >= maxPropType THEN FALSE
    ELSE Type_ConvertibleTo(propTypes[i], propTypes[t])

\* The constants PTBool .. PTDate: 1 + iota.
PT ==
    [Bool |-> 1, Int |-> 2, Int8 |-> 3, Int16 |-> 4, Int32 |-> 5, Int64 |-> 6,
     Uint |-> 7, Uint8 |-> 8, Uint16 |-> 9, Uint32 |-> 10, Uint64 |-> 11,
     Uintptr |-> 12, Float32 |-> 13, Float64 |-> 14, Complex64 |-> 15,
     Complex128 |-> 16, Bytes |-> 17, String |-> 18, Time |-> 19, Date |-> 20]

\* The switch statements of the predicates of PropType.
PropType_IsSignedInteger(i) ==
    i \in {PT.Int, PT.Int8, PT.Int16, PT.Int32, PT.Int64}

PropType_IsUnsignedInteger(i) ==
    i \in {PT.Uint, PT.Uint8, PT.Uint16, PT.Uint32, PT.Uint64, PT.Uintptr}

\* An IsInteger whose case list lacks PTUintptr.
PropType_IsIntegerNoUintptr(i) ==
    i \in {PT.Int, PT.Int8, PT.Int16, PT.Int32, PT.Int64,
           PT.Uint, PT.Uint8, PT.Uint16, PT.Uint32, PT.Uint64}

PropType_IsInteger(i) ==
    i \in {PT.Int, PT.Int8, PT.Int16, PT.Int32, PT.Int64,
           PT.Uint, PT.Uint8, PT.Uint16, PT.Uint32, PT.Uint64, PT.Uintptr}

PropType_IsFloat(i) == i \in {PT.Float32, PT.Float64}

PropType_IsRealNumber(i) ==
    i \in {PT.Int, PT.Int8, PT.Int16, PT.Int32, PT.Int64,
           PT.Uint, PT.Uint8, PT.Uint16, PT.Uint32, PT.Uint64, PT.Uintptr,
           PT.Float32, PT.Float64}

PropType_IsComplex(i) == i \in {PT.Complex64, PT.Complex128}

PropType_IsNumeric(i) ==
    i \in {PT.Int, PT.Int8, PT.Int16, PT.Int32, PT.Int64,
           PT.Uint, PT.Uint8, PT.Uint16, PT.Uint32, PT.Uint64, PT.Uintptr,
           PT.Float32, PT.Float64,
           PT.Complex64, PT.Complex128}

PropType_IsByteString(i) == i \in {PT.Bytes, PT.String}

\* The second tag handed to IsConvertibleTo: every valid one and some
\* invalid ones.
OtherTags == {-128, -1, 0, maxPropType, 127} \cup (1..(maxPropType - 1))

\* The predicates of PropType on the tag i of arg, and IsConvertibleTo
\* between i and a second tag t, in both directions.
Classify_Call ==
    /\ last = NoCall
    /\ "tag" \in DOMAIN arg
    /\ \E t \in OtherTags :
        last' = Call("Classify", "", [tag |-> arg.tag, t |-> t], <<>>, "",
                     [IsSignedInteger |-> PropType_IsSignedInteger(arg.tag),
                      IsUnsignedInteger |->
                          PropType_IsUnsignedInteger(arg.tag),
                      IsInteger |-> PropType_IsInteger(arg.tag),
                      IsFloat |-> PropType_IsFloat(arg.tag),
                      IsRealNumber |-> PropType_IsRealNumber(arg.tag),
                      IsComplex |-> PropType_IsComplex(arg.tag),
                      IsNumeric |-> PropType_IsNumeric(arg.tag),
                      IsByteString |-> PropType_IsByteString(arg.tag),
                      IsConvertibleTo |->
                          PropType_IsConvertibleTo(arg.tag, t),
                      IsConvertibleFrom |->
                          PropType_IsConvertibleTo(t, arg.tag)])
    /\ UNCHANGED <<fam, reg, kind, vs, vm, ids, rcv, arg>>

InitPropType ==
    /\ arg \in {[tag |-> i] : i \in PropTypeTags}
               \cup {[value |-> v] : v \in GoValues}
    /\ rcv = [kind |-> "", v |-> NilRef]
    /\ IdleFam /\ IdleValid
    /\ last = NoCall

NextPropType == GoType_Call \/ PropTypeOf_Call \/ Classify_Call

SpecPropType == InitPropType /\ [][NextPropType]_vars

\* The Go types of the tags PTBool .. PTDate, in their order.
ClosedGoTypes ==
    <<"bool", "int", "int8", "int16", "int32", "int64", "uint", "uint8",
      "uint16", "uint32", "uint64", "uintptr", "float32", "float64",
      "complex64", "complex128", "[]byte", "string", "time.Time",
      "gosln.Date">>

\* C18: for each tag k of 1..20, k.GoType() is the Go type of k, no other
\* tag has it, and PropTypeOf of its zero value is k; for every tag <= 0 or
\* >= 21 GoType is nil and IsValid false; PropTypeOf is 0 for nil, a MyInt,
\* a pointer, a Type, an ID and every other value outside the 20 Go types.
C18_PropTypeOfGoTypeInverse ==
    /\ last.op = "GoType" =>
          IF arg.tag >= 1 /\ arg.tag <= 20
          THEN /\ last.res.IsValid
               /\ last.res.GoType = ClosedGoTypes[arg.tag]
               /\ last.res.PropTypeOf = arg.tag
               /\ \A j \in (1..20) \ {arg.tag} :
                      PropType_GoType(j) # last.res.GoType
          ELSE /\ ~last.res.IsValid
               /\ last.res.GoType = "nil"
    /\ last.op = "PropTypeOf" =>
          IF \E k \in 1..20 : ClosedGoTypes[k] = arg.value.type
          THEN ClosedGoTypes[last.res] = arg.value.type
          ELSE last.res = 0

\* GoType has been called on PTDate, the last valid tag.
C18_Witness ==
    /\ last.op = "GoType"
    /\ arg.tag = 20
    /\ last.res.GoType = "gosln.Date"

\* ------------------------------------------------ PropMapGet, PropMapSet
\* The width in bits of the integer type t (int, uint and uintptr of a
\* 64-bit build).
Bits(t) ==
    CASE t \in {"int8", "uint8"} -> 8
      [] t \in {"int16", "uint16"} -> 16
      [] t \in {"int32", "uint32"} -> 32
      [] OTHER -> 64

\* The integer n >= 0 in the integer type t: the low bits of n, read with a
\* sign by a signed type. The numbers of this model are below 2^31, so a
\* type of 32 bits or more holds them as they are.
Wrap(n, t) ==
    IF Bits(t) >= 32 THEN n
    ELSE LET m == n % (2 ^ Bits(t))
         IN IF t \in IntTypes /\ m >= 2 ^ (Bits(t) - 1) THEN m - 2 ^ Bits(t)
            ELSE m

\* string(rune(n)): the UTF-8 encoding of the code point n, written "U+n"
\* for a code point outside the table Ascii.
RuneString(n) ==
    IF \E k \in 1..Len(Ascii) :
           n >= Ascii[k].first /\ n < Ascii[k].first + Len(Ascii[k].bytes)
    THEN LET k == CHOOSE j \in 1..Len(Ascii) :
                      /\ n >= Ascii[j].first
                      /\ n < Ascii[j].first + Len(Ascii[j].bytes)
         IN At(Ascii[k].bytes, n - Ascii[k].first + 1)
    ELSE "U+" \o ToString(n)

\* reflect.Value.Convert(t) on the value x, whose type is convertible to t.
\* The floats of this model are whole numbers.
Value_Convert(x, t) ==
    IF t \in IntTypes \cup UintTypes THEN [type |-> t, v |-> Wrap(x.v, t)]
    ELSE IF t = "string" /\ x.type \in IntTypes \cup UintTypes
    THEN [type |-> t, v |-> RuneString(x.v)]
    ELSE [type |-> t, v |-> x.v]

\* The result of PropMapGet: the named results value and err.
GetResult(value, err) == [value |-> value, err |-> err]

\* A PropMapGet without the case of ConvertibleTo.
PropMapGetAssignableOnly(V, pm, m, name) ==
    IF IsNil(pm) THEN GetResult(ZeroValue(V), "*PropNotExistError")
    ELSE IF name \notin DOMAIN m
    THEN GetResult(ZeroValue(V), "*PropNotExistError")
    ELSE IF Type_AssignableTo(m[name].type, V) THEN GetResult(m[name], "")
    ELSE GetResult(ZeroValue(V), "*PropTypeError")

\* PropMapGet[V](pm, name), pm being the reference pm to a map with the
\* contents m.
PropMapGet(V, pm, m, name) ==
    IF IsNil(pm) THEN GetResult(ZeroValue(V), "*PropNotExistError")
    ELSE IF name \notin DOMAIN m
    THEN GetResult(ZeroValue(V), "*PropNotExistError")
    ELSE IF Type_AssignableTo(m[name].type, V) THEN GetResult(m[name], "")
    ELSE IF Type_ConvertibleTo(m[name].type, V)
    THEN GetResult(Value_Convert(m[name], V), "")
    ELSE GetResult(ZeroValue(V), "*PropTypeError")

\* The result of PropMapSet: the error returned, the panic raised by pm.Set
\* and the contents of the map afterwards.
SetResult(err, panic, m) == [err |-> err, panic |-> panic, m |-> m]

\* A PropMapSet that hands every name to pm.Set.
PropMapSetNoNameCheck(pm, m, name, value) ==
    IF IsNil(pm) THEN SetResult("property map is nil", "", m)
    ELSE SetResult("", validMap_Set(NewPropMap, m, name, value).panic,
                   validMap_Set(NewPropMap, m, name, value).c)

\* PropMapSet[V](pm, name, value), pm being the reference pm to a map with
\* the contents m.
PropMapSet(pm, m, name, value) ==
    IF IsNil(pm) THEN SetResult("property map is nil", "", m)
    ELSE IF ~PropName_IsValid(name)
    THEN SetResult("*InvalidPropNameError", "", m)
    ELSE SetResult("", validMap_Set(NewPropMap, m, name, value).panic,
                   validMap_Set(NewPropMap, m, name, value).c)

\* A time.Time by its year, day of the year and second of the day in UTC.
Time(year, yearDay, sec) == [year |-> year, yearDay |-> yearDay, sec |-> sec]

\* The property values stored and read back: one or two of each Go type.
GetValues ==
    {[type |-> "bool", v |-> TRUE],
     [type |-> "int", v |-> 200], [type |-> "int8", v |-> 7],
     [type |-> "int16", v |-> 300], [type |-> "int32", v |-> 71],
     [type |-> "int64", v |-> 65], [type |-> "uint", v |-> 128],
     [type |-> "uint8", v |-> 255], [type |-> "uint16", v |-> 65535],
     [type |-> "uint32", v |-> 256], [type |-> "uint64", v |-> 9],
     [type |-> "uintptr", v |-> 10], [type |-> "float32", v |-> 3],
     [type |-> "float64", v |-> 4], [type |-> "complex64", v |-> 1],
     [type |-> "complex128", v |-> 2], [type |-> "[]byte", v |-> "G"],
     [type |-> "string", v |-> "go"],
     [type |-> "time.Time", v |-> Time(2023, 71, 0)],
     [type |-> "time.Time", v |-> Time(2023, 71, 86399)],
     [type |-> "gosln.Date", v |-> Date(2023, 71)],
     [type |-> "gosln.Date", v |-> Date(2024, 366)]}

\* The PropMap the calls are made on: nil, or the one NewPropMap made.
PropMapRefs == {NilRef, [ref |-> "pm"]}

\* The names and values handed to PropMapSet: every value under the name
\* "a" and under the zero PropName, two values under the name "b".
PropMapSetArgs ==
    {[name |-> n, value |-> x] : n \in {"a", ""}, x \in GetValues}
    \cup {[name |-> "b", value |-> x] :
              x \in {[type |-> "int", v |-> 200],
                     [type |-> "gosln.Date", v |-> Date(2023, 71)]}}

PropMapSet_Call ==
    \E a \in PropMapSetArgs :
        /\ vm' = PropMapSet(rcv.v, vm, a.name, a.value).m
        /\ last' = Call("PropMapSet", a.value.type, a, vm,
                        PropMapSet(rcv.v, vm, a.name, a.value).panic,
                        PropMapSet(rcv.v, vm, a.name, a.value).err)
        /\ UNCHANGED <<fam, reg, kind, vs, ids, rcv, arg>>

PropMapGet_Call ==
    \E V \in SeqRange(propTypes), name \in PropNames :
        /\ last' = Call("PropMapGet", V, [name |-> name], vm, "",
                        PropMapGet(V, rcv.v, vm, name))
        /\ UNCHANGED <<fam, reg, kind, vs, vm, ids, rcv, arg>>

InitGet ==
    /\ rcv \in {[kind |-> "PropMap", v |-> p] : p \in PropMapRefs}
    /\ kind = "PropMap" /\ vs = {} /\ vm = EmptyMap /\ ids = EmptyMap
    /\ arg = NilRef
    /\ IdleFam
    /\ last = NoCall

NextGet == PropMapSet_Call \/ PropMapGet_Call

SpecGet == InitGet /\ [][NextGet]_vars

\* The tag of the Go type V: its place among the 20 Go types, else 0.
TagOf(V) ==
    IF \E k \in 1..20 : ClosedGoTypes[k] = V
    THEN CHOOSE k \in 1..20 : ClosedGoTypes[k] = V
    ELSE 0

\* C19: PropMapGet[V](pm, name) leaves pm as it was and ends in one of three
\* ways: a *PropNotExistError when pm is nil or name is no key of pm (the
\* zero PropName never is); a *PropTypeError when the kind K of the stored
\* value is not the tag T of V and K.IsConvertibleTo(T) is false, as for an
\* int32 read as bool, complex128, []byte, time.Time or Date; otherwise no
\* error and a value of type V, the stored one when K = T, as for the int32
\* 'G' read as int, int8, byte, uintptr, float32 (71) or string ("G").
C19_PropMapGetOutcomes ==
    last.op = "PropMapGet" =>
        LET V == last.who
            name == last.a.name
            pm == last.pre
            r == last.res
        IN /\ vm = pm
           /\ r.err \in {"", "*PropNotExistError", "*PropTypeError"}
           /\ name = "" => r.err = "*PropNotExistError"
           /\ IF IsNil(rcv.v) \/ name \notin DOMAIN pm
              THEN r.err = "*PropNotExistError"
              ELSE /\ IF /\ PropTypeOf(pm[name]) # TagOf(V)
                         /\ ~PropType_IsConvertibleTo(PropTypeOf(pm[name]),
                                                      TagOf(V))
                      THEN r.err = "*PropTypeError"
                      ELSE /\ r.err = ""
                           /\ r.value.type = V
                           /\ PropTypeOf(pm[name]) = TagOf(V) =>
                                  r.value = pm[name]
                   /\ pm[name] = [type |-> "int32", v |-> 71] =>
                        /\ V \in {"bool", "complex128", "[]byte", "time.Time",
                                  "gosln.Date"} => r.err = "*PropTypeError"
                        /\ V \in {"int", "int8", "uint8", "uintptr",
                                  "float32"} =>
                               r.err = "" /\ r.value = [type |-> V, v |-> 71]
                        /\ V = "string" =>
                               /\ r.err = ""
                               /\ r.value = [type |-> V, v |-> "G"]

\* The int32 'G' has been read as a string with no error.
C19_Witness ==
    /\ last.op = "PropMapGet"
    /\ last.who = "string"
    /\ last.a.name \in DOMAIN last.pre
    /\ last.pre[last.a.name] = [type |-> "int32", v |-> 71]
    /\ last.res.err = ""

\* Midnight UTC of the date d, and the UTC date of the time t.
MidnightUTC(d) == Time(d.year, d.yearDay, 0)
UTCDate(t) == Date(t.year, t.yearDay)

\* C20: PropMapGet[time.Time] on a stored Date d returns midnight UTC of d
\* with no error, and PropMapGet[gosln.Date] on a stored time.Time t returns
\* the UTC date of t with no error, so a date read as a time and that time
\* read as a date is the date once more.
C20_DateTimeConvertible ==
    (/\ last.op = "PropMapGet"
     /\ ~IsNil(rcv.v)
     /\ last.a.name \in DOMAIN last.pre) =>
        LET x == last.pre[last.a.name]
        IN /\ (x.type = "gosln.Date" /\ last.who = "time.Time") =>
                  /\ last.res.err = ""
                  /\ last.res.value =
                         [type |-> "time.Time", v |-> MidnightUTC(x.v)]
                  /\ UTCDate(MidnightUTC(x.v)) = x.v
           /\ (x.type = "time.Time" /\ last.who = "gosln.Date") =>
                  /\ last.res.err = ""
                  /\ last.res.value =
                         [type |-> "gosln.Date", v |-> UTCDate(x.v)]

\* C21: PropMapSet(pm, name, value) never panics; for a nil pm or an invalid
\* name it returns an error (a *InvalidPropNameError for the name) and pm
\* is as before; otherwise it returns nil, pm maps name to value, every
\* other entry of pm is as before, and PropMapGet of the type of value on
\* name returns the value with no error.
C21_PropMapSet ==
    last.op = "PropMapSet" =>
        LET name == last.a.name
            value == last.a.value
            pre == last.pre
        IN /\ last.panic = ""
           /\ IF IsNil(rcv.v) \/ name = ""
              THEN /\ last.res # ""
                   /\ vm = pre
                   /\ ~IsNil(rcv.v) => last.res = "*InvalidPropNameError"
              ELSE /\ last.res = ""
                   /\ DOMAIN vm = DOMAIN pre \cup {name}
                   /\ vm[name] = value
                   /\ \A k \in DOMAIN pre \ {name} : vm[k] = pre[k]
                   /\ PropMapGet(value.type, rcv.v, vm, name) =
                          GetResult(value, "")

\* PropMapSet has overwritten the value of "a" in a map that holds "b" too.
C21_Witness ==
    /\ last.op = "PropMapSet"
    /\ last.res = ""
    /\ last.a.name = "a"
    /\ DOMAIN last.pre = {"a", "b"}
    /\ last.pre["a"].type # last.a.value.type

\* C22: Set(name, x) on a PropTypeMap or a PropMap looks at the key first:
\* an invalid name panics with *InvalidPropNameError, whatever x is; a valid
\* name with an invalid PropType (<= 0 or >= 21) panics with
\* *InvalidPropTypeError, and with a value of none of the 20 Go types with
\* *InvalidPropValueError; a valid name with a valid x does not panic and
\* the map holds the pair.
C22_KeyBeforeValue ==
    (last.op = "Set" /\ kind \in MapKinds) =>
        LET name == last.a[1]
            x == last.a[2]
            validX == IF kind = "PropTypeMap" THEN x >= 1 /\ x <= 20
                      ELSE TagOf(x.type) # 0
        IN IF name = "" THEN last.panic = "*InvalidPropNameError"
           ELSE IF ~validX
           THEN last.panic = IF kind = "PropTypeMap"
                             THEN "*InvalidPropTypeError"
                             ELSE "*InvalidPropValueError"
           ELSE /\ last.panic = ""
                /\ name \in DOMAIN vm
                /\ vm[name] = x

\* Set on a PropTypeMap has been handed the zero PropName and the invalid
\* PropType 0, and has panicked over the name.
C22_Witness ==
    /\ last.op = "Set"
    /\ kind = "PropTypeMap"
    /\ last.a = <<"", 0>>
    /\ last.panic = "*InvalidPropNameError"

\* ------------------------------------------------------ init, checkInit
\* The message checkInit panics with.
NotInitialized == "not initialized before use"

\* mepm.checkInit(), mepns.checkInit(): s[who] is the field m or s of the
\* component who, nil until init.
checkInit(s, who) == IF IsNil(s[who]) THEN NotInitialized ELSE ""

\* new(mutExclPropMap) and new(mutExclPropNameSet) for the components cs:
\* a family with its contents fam, its fields r reg and its fields m or s.
New(cs) ==
    [fam |-> [c \in cs |-> IF c \in MapMembers THEN EmptyMap ELSE {}],
     reg |-> [c \in cs |-> <<>>],
     s |-> [c \in cs |-> NilRef]]

\* An init that copies the collections and makes no map or set.
mutExcl_initNoField(st, who, collection) ==
    [st EXCEPT !.reg[who] = IF Len(collection) > 0 THEN collection ELSE @]

\* mepm.init(capacity, collection...), mepns.init(capacity, collection...)
\* on the component who of the family st.
mutExcl_init(st, who, collection) ==
    [mutExcl_initNoField(st, who, collection)
        EXCEPT !.fam[who] = IF who \in MapMembers THEN EmptyMap ELSE {},
               !.s[who] = [ref |-> who]]

\* NewPropMatchClause and NewPropMutateArg, init by init.
propMatchClauseImpl_New ==
    mutExcl_init(
        mutExcl_init(
            mutExcl_init(New({"equal", "present", "absent"}),
                         "equal", <<"present", "absent">>),
            "present", <<"equal", "absent">>),
        "absent", <<"equal", "present">>)

propMutateArgImpl_New ==
    mutExcl_init(mutExcl_init(New({"set", "remove"}), "set", <<"remove">>),
                 "remove", <<"set">>)

\* A method of component who after its checkInit: the possible outcomes,
\* r being the collections whose Remove it calls.
mutExcl_Body(f, r, who, op, a) ==
    CASE op = "Add" -> mutExclPropNameSet_Add(f, r, who, a)
      [] op = "Union" -> mutExclPropNameSet_Union(f, r, who, a)
      [] op = "DisjunctiveUnion" ->
            mutExclPropNameSet_DisjunctiveUnion(f, r, who, a)
      [] op \in {"Set", "GetAndSet"} ->
            mutExclPropMap_Set(f, r, who, a[1], a[2])
      [] op \in {"SetMap", "GetAndSetMap"} ->
            mutExclPropMap_SetMap(f, r, who, a)
      [] op = "Remove" -> {Outcome("", Coll_Remove(f, who, a))}
      [] op = "GetAndRemove" ->
            {Outcome("", mutExclPropMap_Remove(f, who, <<a>>))}
      [] op = "Intersect" ->
            {Outcome("", mutExclPropNameSet_Intersect(f, who, a))}
      [] op = "Subtract" ->
            {Outcome("", mutExclPropNameSet_Subtract(f, who, a))}
      [] op = "Filter" ->
            {Outcome("", IF who \in MapMembers
                         THEN mutExclPropMap_Filter(f, who, a)
                         ELSE mutExclPropNameSet_Filter(f, who, a))}
      [] op = "Clear" ->
            {Outcome("", IF who \in MapMembers
                         THEN mutExclPropMap_Clear(f, who)
                         ELSE mutExclPropNameSet_Clear(f, who))}
      [] OTHER -> {Outcome("", f)}

\* The names an inserting method hands to removeFromOthers, g being the
\* family after the insertion.
RemovedNames(g, who, op, a) ==
    CASE op = "Add" -> SeqRange(a)
      [] op \in {"Set", "GetAndSet"} -> {a[1]}
      [] op = "Union" -> IF a.ref = NIL THEN {} ELSE a.items
      [] op = "DisjunctiveUnion" ->
            IF a.ref = NIL THEN {} ELSE a.items \cap g[who]
      [] op \in {"SetMap", "GetAndSetMap"} ->
            IF a.ref = NIL THEN {} ELSE DOMAIN a.m
      [] OTHER -> {}

\* The collections of r that precede the first one not initialized.
RECURSIVE InitedPrefix(_, _)
InitedPrefix(s, r) ==
    IF r = <<>> THEN <<>>
    ELSE IF IsNil(s[Head(r)]) THEN <<>>
    ELSE <<Head(r)>> \o InitedPrefix(s, Tail(r))

\* The method op of component who of the family st: checkInit, then the
\* body. removeFromOthers calls Remove on the collections of r in order, and
\* the Remove of one that is not initialized panics in its own checkInit,
\* after the insertion and the removals from the collections before it.
mutExcl_Call(st, who, op, a) ==
    IF checkInit(st.s, who) # "" THEN {Outcome(checkInit(st.s, who), st.fam)}
    ELSE IF InitedPrefix(st.s, st.reg[who]) = st.reg[who]
    THEN mutExcl_Body(st.fam, st.reg[who], who, op, a)
    ELSE UNION {
        IF o.panic # "" \/ RemovedNames(o.c, who, op, a) = {} THEN {o}
        ELSE IF op = "Add"
        THEN {Outcome(NotInitialized,
                      removeFrom(o.c, InitedPrefix(st.s, st.reg[who]), a))}
        ELSE {Outcome(NotInitialized,
                      removeFrom(o.c, InitedPrefix(st.s, st.reg[who]), <<x>>))
              : x \in RemovedNames(o.c, who, op, a)}
        : o \in mutExcl_Body(st.fam, <<>>, who, op, a) }

\* The methods of a mutExclPropNameSet and of a mutExclPropMap.
SetMethods ==
    {"Len", "Range", "Filter", "ContainsItem", "ContainsSet", "ContainsAny",
     "Add", "Remove", "Union", "Intersect", "Subtract", "DisjunctiveUnion",
     "Clear"}

MapMethods ==
    {"Len", "Range", "Filter", "Get", "Set", "GetAndSet", "SetMap",
     "GetAndSetMap", "Remove", "GetAndRemove", "Clear"}

\* The arguments handed to the method op.
MethodArgs(op) ==
    CASE op \in {"Add", "Remove"} -> SeqsUpTo(PropNames, 1)
      [] op \in {"Union", "Intersect", "Subtract", "DisjunctiveUnion",
                 "ContainsSet", "ContainsAny"} ->
            {SetArg(NIL, {})} \cup {SetArg("ext", S) : S \in SUBSET PropNames}
      [] op \in {"Set", "GetAndSet"} -> PropNames \X AnyValues
      [] op \in {"SetMap", "GetAndSetMap"} ->
            {MapArg(NIL, EmptyMap)}
            \cup {MapArg("ext", m) : m \in MapsUpTo(PropNames, AnyValues, 1)}
      [] op = "Filter" -> SUBSET ValidPropNames
      [] op \in {"Get", "GetAndRemove", "ContainsItem"} -> PropNames
      [] OTHER -> {<<>>}

\* The family as the variables hold it.
Family == [fam |-> fam, reg |-> reg, s |-> rcv.v.s]

MutExclPropNameSet_Call ==
    \E who \in SetMembers(fam), op \in SetMethods :
        \E a \in MethodArgs(op) :
            \E o \in mutExcl_Call(Family, who, op, a) :
                FamStep(o.c, Call(op, who, a, fam, o.panic, ""))

MutExclPropMap_Call ==
    \E who \in DOMAIN fam \cap MapMembers, op \in MapMethods :
        \E a \in MethodArgs(op) :
            \E o \in mutExcl_Call(Family, who, op, a) :
                FamStep(o.c, Call(op, who, a, fam, o.panic, ""))

\* init on a component made by new and not yet initialized, with no
\* collection or with one other component.
MutExcl_initCall ==
    \E who \in DOMAIN fam :
        /\ IsNil(rcv.v.s[who])
        /\ \E collection \in {<<>>} \cup {<<c>> : c \in DOMAIN fam \ {who}} :
            /\ fam' = mutExcl_init(Family, who, collection).fam
            /\ reg' = mutExcl_init(Family, who, collection).reg
            /\ rcv' = [rcv EXCEPT
                          !.v.s = mutExcl_init(Family, who, collection).s]
            /\ last' = Call("init", who, collection, fam, "", "")
        /\ UNCHANGED <<kind, vs, vm, ids, arg>>

\* The families at the start: the one of NewPropMatchClause, the one of
\* NewPropMutateArg, a new(mutExclPropMap) and a new(mutExclPropNameSet)
\* alone, and a map and a set initialized with a set that is not.
NewFamilies ==
    {[kind |-> "NewPropMatchClause", st |-> propMatchClauseImpl_New],
     [kind |-> "NewPropMutateArg", st |-> propMutateArgImpl_New],
     [kind |-> "new", st |-> New({"equal"})],
     [kind |-> "new", st |-> New({"present"})],
     [kind |-> "new",
      st |-> mutExcl_init(New({"equal", "absent"}), "equal", <<"absent">>)],
     [kind |-> "new",
      st |-> mutExcl_init(New({"present", "absent"}), "present",
                          <<"absent">>)]}

InitInit ==
    /\ \E n \in NewFamilies :
        /\ kind = n.kind
        /\ fam = n.st.fam
        /\ reg = n.st.reg
        /\ rcv = [kind |-> "mutExcl", v |-> [ref |-> "fields", s |-> n.st.s]]
    /\ vs = {} /\ vm = EmptyMap /\ ids = EmptyMap
    /\ arg = NilRef
    /\ last = NoCall

NextInit == MutExclPropNameSet_Call \/ MutExclPropMap_Call \/ MutExcl_initCall

SpecInit == InitInit /\ [][NextInit]_vars

\* C23: a method of a mutExclPropMap or mutExclPropNameSet on which init
\* has not been called, a reading one as well as a mutating one, panics
\* with "not initialized before use" and nothing has changed; on the
\* components of NewPropMatchClause and NewPropMutateArg no method panics
\* with it, the removals from the siblings included.
C23_NotInitialized ==
    last.op \notin {"", "init"} =>
        /\ IsNil(rcv.v.s[last.who]) =>
               last.panic = "not initialized before use" /\ fam = last.pre
        /\ kind \in {"NewPropMatchClause", "NewPropMutateArg"} =>
               last.panic # "not initialized before use"

\* Len has been called on a collection that is not initialized.
C23_Witness ==
    /\ last.op = "Len"
    /\ IsNil(rcv.v.s[last.who])
    /\ last.panic = "not initialized before use"

\* ------------------------------------------------ the queries of an IDSet
\* idSetImpl.Len(): the sum of len(sub) over the types T still to visit.
RECURSIVE idSetImpl_LenOver(_, _)
idSetImpl_LenOver(m, T) ==
    IF T = {} THEN 0
    ELSE LET t == CHOOSE u \in T : TRUE
         IN Cardinality(m[t]) + idSetImpl_LenOver(m, T \ {t})

idSetImpl_Len(m) == idSetImpl_LenOver(m, DOMAIN m)

\* idSetImpl.LenType(t), NumType(), ContainsType(t), t being the string of
\* the Type: ids.m[t] is nil, of length 0, for a type that is no key.
idSetImpl_LenType(m, t) == IF t \in DOMAIN m THEN Cardinality(m[t]) ELSE 0

idSetImpl_NumType(m) == Cardinality(DOMAIN m)

idSetImpl_ContainsType(m, t) == idSetImpl_LenType(m, t) > 0

\* idSetImpl.RangeType(t, handler): the IDs a handler that returns true is
\* called with.
idSetImpl_RangeType(m, t) ==
    IF t \in DOMAIN m THEN {[t |-> t, s |-> x] : x \in m[t]} ELSE {}

\* The strings of the Types the queries are asked about.
TypeStrings == {x.t : x \in IDArgs}

\* The IDs of type t among the IDs S.
OfType(S, t) == {x \in S : x.t = t}

RECURSIVE SumOver(_, _)
SumOver(f, T) ==
    IF T = {} THEN 0
    ELSE LET t == CHOOSE u \in T : TRUE IN f[t] + SumOver(f, T \ {t})

\* C24: whatever calls were made on an IDSet, with C the IDs it contains,
\* NumType() is the number of types that have an ID in C, LenType(t) is the
\* number of IDs of type t in C, ContainsType(t) holds exactly when
\* LenType(t) > 0, Len() is the sum of LenType over the types, and
\* RangeType(t) visits exactly the IDs of type t in C.
C24_PerTypeQueries ==
    kind = "IDSet" =>
        LET C == {x \in IDArgs : idSetImpl_ContainsItem(ids, x)}
        IN /\ idSetImpl_NumType(ids) =
                  Cardinality({t \in TypeStrings : OfType(C, t) # {}})
           /\ \A t \in TypeStrings :
                  /\ idSetImpl_LenType(ids, t) = Cardinality(OfType(C, t))
                  /\ idSetImpl_ContainsType(ids, t) <=>
                         idSetImpl_LenType(ids, t) > 0
                  /\ idSetImpl_RangeType(ids, t) = OfType(C, t)
           /\ idSetImpl_Len(ids) =
                  SumOver([t \in TypeStrings |-> idSetImpl_LenType(ids, t)],
                          TypeStrings)

\* A call has taken the last ID of type "T1" out of an IDSet that still
\* holds an ID of type "T2".
C24_Witness ==
    /\ kind = "IDSet"
    /\ last.op \in {"Remove", "Subtract", "Intersect", "DisjunctiveUnion",
                    "Filter"}
    /\ "T1" \in DOMAIN last.pre
    /\ idSetImpl_LenType(ids, "T1") = 0
    /\ idSetImpl_NumType(ids) = 1

\* C25: for every tag, IsInteger is IsSignedInteger or IsUnsignedInteger,
\* IsRealNumber is IsInteger or IsFloat, IsNumeric is IsRealNumber or
\* IsComplex; no tag is in two of the classes signed integer, unsigned
\* integer, float, complex and byte string; PTBool, PTTime and PTDate are in
\* none of them; and for a tag <= 0 or >= 21 every predicate is false, as is
\* IsConvertibleTo with the tag as either argument.
C25_Classification ==
    last.op = "Classify" =>
        LET r == last.res
            i == last.a.tag
            t == last.a.t
            classes == <<r.IsSignedInteger, r.IsUnsignedInteger, r.IsFloat,
                         r.IsComplex, r.IsByteString>>
        IN /\ r.IsInteger <=> (r.IsSignedInteger \/ r.IsUnsignedInteger)
           /\ r.IsRealNumber <=> (r.IsInteger \/ r.IsFloat)
           /\ r.IsNumeric <=> (r.IsRealNumber \/ r.IsComplex)
           /\ \A j, k \in 1..5 : j # k => ~(classes[j] /\ classes[k])
           /\ i \in {1, 19, 20} =>
                  /\ \A j \in 1..5 : ~classes[j]
                  /\ ~r.IsInteger /\ ~r.IsRealNumber /\ ~r.IsNumeric
           /\ (i <= 0 \/ i >= 21) =>
                  /\ \A j \in 1..5 : ~classes[j]
                  /\ ~r.IsInteger /\ ~r.IsRealNumber /\ ~r.IsNumeric
                  /\ ~r.IsConvertibleTo /\ ~r.IsConvertibleFrom
           /\ (t <= 0 \/ t >= 21) =>
                  ~r.IsConvertibleTo /\ ~r.IsConvertibleFrom

\* The predicates have been asked about PTUintptr, an integer.
C25_Witness ==
    /\ last.op = "Classify"
    /\ last.a.tag = 12
    /\ last.res.IsInteger
    /\ last.res.IsUnsignedInteger

\* ------------------------------- newValidSet and newValidMap, nil functions
\* newValidSet[Item](capacity, validateFn, errFn): NIL stands for a nil
\* function. The closure for a nil validateFn calls IsValid on the item it
\* is handed. Item is the name of a type that has the method IsValid.
newValidSet(Item, validateFn, errFn) ==
    [validateFn |-> IF validateFn = NIL THEN Item \o ".IsValid"
                    ELSE validateFn,
     errFn |-> IF errFn = NIL THEN "item is invalid" ELSE errFn]

\* newValidMap[Key, Value](capacity, keyValidateFn, keyErrFn,
\* valueValidateFn, valueErrFn): the closure for a nil keyValidateFn calls
\* IsValid on the key it is handed, the closure for a nil valueValidateFn
\* calls IsValid on the variable v declared before it (var v Value).
newValidMap(Key, Value, keyValidateFn, keyErrFn, valueValidateFn, valueErrFn) ==
    [keyValidateFn |-> IF keyValidateFn = NIL THEN Key \o ".IsValid"
                       ELSE keyValidateFn,
     keyErrFn |-> IF keyErrFn = NIL THEN "key is invalid" ELSE keyErrFn,
     valueValidateFn |-> IF valueValidateFn = NIL
                         THEN "zero " \o Value \o ".IsValid"
                         ELSE valueValidateFn,
     valueErrFn |-> IF valueErrFn = NIL THEN "value is invalid"
                    ELSE valueErrFn]

\* The collections made with nil functions: a set of PropName, a set of
\* Type, a map from PropName to PropType and a map from PropName to PropName.
DefaultSetKinds == {"validSet[PropName]", "validSet[Type]"}

DefaultMapKinds == {"validMap[PropName,PropType]", "validMap[PropName,PropName]"}

DefaultCfg(k) ==
    CASE k = "validSet[PropName]" -> newValidSet("PropName", NIL, NIL)
      [] k = "validSet[Type]" -> newValidSet("Type", NIL, NIL)
      [] k = "validMap[PropName,PropType]" ->
            newValidMap("PropName", "PropType", NIL, NIL, NIL, NIL)
      [] k = "validMap[PropName,PropName]" ->
            newValidMap("PropName", "PropName", NIL, NIL, NIL, NIL)

\* The items handed to Add and the values handed to Set on the collection
\* of kind k.
DefaultItems(k) == IF k = "validSet[Type]" THEN Types ELSE PropNames

DefaultValues(k) ==
    IF k = "validMap[PropName,PropType]" THEN PropTypeArgs ELSE PropNames

Default_Add ==
    /\ kind \in DefaultSetKinds
    /\ \E xs \in SeqsUpTo(DefaultItems(kind), MaxArgs) :
        LET o == validSet_Add(DefaultCfg(kind), vs, xs)
        IN ValidStep(o.c, vm, ids, Call("Add", kind, SeqRange(xs), vs,
                                        o.panic, ""))

Default_Remove ==
    /\ kind \in DefaultSetKinds
    /\ \E xs \in SeqsUpTo(DefaultItems(kind), MaxArgs) :
        ValidStep(validSet_Remove(vs, xs), vm, ids,
                  Call("Remove", kind, SeqRange(xs), vs, "", ""))

Default_Set ==
    /\ kind \in DefaultMapKinds
    /\ \E k \in PropNames, v \in DefaultValues(kind) :
        LET o == validMap_Set(DefaultCfg(kind), vm, k, v)
        IN ValidStep(vs, o.c, ids, Call("Set", kind, <<k, v>>, vm, o.panic, ""))

InitDefault ==
    /\ kind \in DefaultSetKinds \cup DefaultMapKinds
    /\ vs = {} /\ vm = EmptyMap /\ ids = EmptyMap
    /\ IdleFam /\ IdleEval
    /\ last = NoCall

NextDefault == Default_Add \/ Default_Remove \/ Default_Set

SpecDefault == InitDefault /\ [][NextDefault]_vars

\* C26: on a validMap made with nil validation functions, Set(key, value)
\* with a valid key returns exactly when value.IsValid() is true and the
\* map then holds the pair, and Set with an invalid key panics; on a
\* validSet made with a nil validateFn, Add returns exactly when every item
\* it is handed is valid.
C26_DefaultValidation ==
    /\ last.op = "Set" =>
          LET key == last.a[1]
              value == last.a[2]
              valid == IF kind = "validMap[PropName,PropType]"
                       THEN value >= 1 /\ value <= 20
                       ELSE value # ""
          IN IF key = "" THEN last.panic # ""
             ELSE /\ last.panic = "" <=> valid
                  /\ valid => (key \in DOMAIN vm /\ vm[key] = value)
    /\ last.op = "Add" => (last.panic = "" <=> "" \notin last.a)

\* C27: ContainsSet(s) on an IDSet returns true exactly when every ID of s
\* is contained in the IDSet (so for a nil and for an empty s), also when
\* s has more IDs than the IDSet has types; ContainsAny(c) returns true
\* exactly when an ID of c is contained.
C27_ContainsSetAndAny ==
    /\ (kind = "IDSet" /\ last.op = "ContainsSet") =>
          (last.res = "true" <=>
              \A x \in last.a.items : x \in IDSet_Items(last.pre))
    /\ (kind = "IDSet" /\ last.op = "ContainsAny") =>
          (last.res = "true" <=>
              \E x \in last.a.items : x \in IDSet_Items(last.pre))

\* C28: when Match(props) returns true for a non-nil props, props has every
\* name of Equal with an equal value, every name of Present and no name of
\* Absent.
C28_MatchSound ==
    (last.op = "Match" /\ last.a.ref # NIL /\ last.res = "true") =>
        /\ \A name \in DOMAIN fam.equal :
               /\ name \in DOMAIN last.a.m
               /\ last.a.m[name].type = fam.equal[name].type
               /\ last.a.m[name].v = fam.equal[name].v
        /\ fam.present \subseteq DOMAIN last.a.m
        /\ fam.absent \cap DOMAIN last.a.m = {}

\* Match has returned true for a non-nil props and a clause with a pair in
\* Equal and a name in Absent.
C28_Witness ==
    /\ last.op = "Match"
    /\ last.a.ref # NIL
    /\ last.res = "true"
    /\ DOMAIN fam.equal # {}
    /\ fam.absent # {}

\* Whether the last call was an insertion handed an invalid property name
\* or a value of no property type.
InvalidInBatch ==
    CASE last.op = "Add" -> "" \in last.a
      [] last.op \in {"Union", "DisjunctiveUnion"} -> "" \in last.a.items
      [] last.op \in {"Set", "GetAndSet"} ->
            last.a[1] = "" \/ TagOf(last.a[2].type) = 0
      [] last.op \in {"SetMap", "GetAndSetMap"} ->
            \E name \in DOMAIN last.a.m :
                name = "" \/ TagOf(last.a.m[name].type) = 0
      [] OTHER -> FALSE

\* C29: an insertion into Equal, Present or Absent (Add, Union,
\* DisjunctiveUnion, Set, GetAndSet, SetMap, GetAndSetMap) that is handed an
\* invalid name or value panics, and the component and its siblings all
\* have the contents they had before the call, the valid names of the batch
\* that a sibling held included.
C29_FailedInsertionTouchesNothing ==
    /\ InvalidInBatch => (last.panic # "" /\ fam = last.pre)
    /\ (last.op # "Match" /\ last.panic # "") => fam = last.pre

\* Equal().SetMap has panicked over a map that also had a valid name held
\* by Present.
C29_Witness ==
    /\ last.op = "SetMap"
    /\ last.who = "equal"
    /\ last.panic # ""
    /\ \E name \in DOMAIN last.a.m :
           name \in last.pre.present /\ TagOf(last.a.m[name].type) # 0

\* The methods that only shrink a collection.
ShrinkingMethods ==
    {"Remove", "Intersect", "Subtract", "Filter", "Clear", "GetAndRemove"}

\* C30: Remove, Intersect, Subtract, Filter, Clear and GetAndRemove on an
\* initialized component never panic, whatever they are handed (an invalid
\* item, a nil set), leave in the component only names it held, with the
\* values they had, and leave every sibling as it was.
C30_ShrinkingCalls ==
    (last.op \in ShrinkingMethods /\ ~IsNil(rcv.v.s[last.who])) =>
        /\ last.panic = ""
        /\ Keys(fam, last.who) \subseteq Keys(last.pre, last.who)
        /\ last.who \in MapMembers =>
               \A name \in DOMAIN fam[last.who] :
                   fam[last.who][name] = last.pre[last.who][name]
        /\ \A c \in DOMAIN fam \ {last.who} : fam[c] = last.pre[c]

\* Subtract with a set that holds the zero PropName has taken a name out of
\* a component of a PropMatchClause while a sibling held a name.
C30_Witness ==
    /\ kind = "NewPropMatchClause"
    /\ last.op = "Subtract"
    /\ "" \in last.a.items
    /\ fam[last.who] # last.pre[last.who]
    /\ \E c \in DOMAIN fam \ {last.who} : Keys(fam, c) # {}
====
